---- MODULE Spec2Model ----
(***************************************************************************)
(* A model of libcernvm's core: the Parameter Store (ParameterMap), the    *)
(* Download Provider (CURLProvider), the session state machine (HVSession) *)
(* and the provisioning pipeline (HVInstance download helpers).            *)
(*                                                                         *)
(* Strings of the program are TLA+ strings; keys of the shared map are the *)
(* full (prefixed) key strings, exactly as the C++ std::map holds them.    *)
(***************************************************************************)
EXTENDS Integers, Sequences, FiniteSets, TLC

(***************************************************************************)
(* Bounds of the model.                                                    *)
(***************************************************************************)
\* Number of ParameterMap objects alive at once (the root plus subgroups).
MaxNodes == 2

\* Number of ParameterMap objects alive at once where the views of nested
\* subgroups are compared (root, subgroup, subgroup of the subgroup).
MaxViewNodes == 3

(***************************************************************************)
(* Strings.                                                                *)
(***************************************************************************)
\* ParameterMap.cpp:25
SAFE_KEY_CHARS == "0123456789_-abcdefghijklmnopqrstuvwxyzABCDEFGHIJKLMNOPQRSTUVWXYZ"

\* The group separator appended by subgroup() (CernVM/Config.h).
PMAP_GROUP_SEPARATOR == "/"

\* The characters the model uses, in increasing order of their char value:
\* the order std::map<std::string,...> iterates its keys in.
CharOrder == "!-/0123456789ABCDEFGHIJKLMNOPQRSTUVWXYZ_abcdefghijklmnopqrstuvwxyz"

CharAt(s, i) == SubSeq(s, i, i)

CharRank(c) == CHOOSE i \in 1..Len(CharOrder) : CharAt(CharOrder, i) = c

\* std::string::find(c) != npos
HasChar(s, c) == \E i \in 1..Len(s) : CharAt(s, i) = c

\* std::string::find(sub) != npos
HasSub(s, sub) == \E i \in 1..(Len(s) - Len(sub) + 1) : SubSeq(s, i, i + Len(sub) - 1) = sub

\* std::string::substr(pos, n): the tail from pos (0-based), clamped to the string.
Substr(s, pos, n) == SubSeq(s, pos + 1, IF pos + n > Len(s) THEN Len(s) ELSE pos + n)

\* operator< of std::string (lexicographic on char values).
RECURSIVE StrLess(_, _)
StrLess(a, b) ==
    IF b = "" THEN FALSE
    ELSE IF a = "" THEN TRUE
    ELSE LET ra == CharRank(CharAt(a, 1))
             rb == CharRank(CharAt(b, 1))
         IN  IF ra < rb THEN TRUE
             ELSE IF ra > rb THEN FALSE
             ELSE StrLess(SubSeq(a, 2, Len(a)), SubSeq(b, 2, Len(b)))

\* The elements of a set of strings in std::map iteration order.
RECURSIVE SortedKeys(_)
SortedKeys(S) ==
    IF S = {} THEN <<>>
    ELSE LET m == CHOOSE x \in S : \A y \in S : x = y \/ StrLess(x, y)
         IN  <<m>> \o SortedKeys(S \ {m})

\* get(): strict mode replaces every character outside SAFE_KEY_CHARS by '_'.
RECURSIVE SanitizeKey(_)
SanitizeKey(s) ==
    IF s = "" THEN ""
    ELSE (IF HasChar(SAFE_KEY_CHARS, CharAt(s, 1)) THEN CharAt(s, 1) ELSE "_")
         \o SanitizeKey(SubSeq(s, 2, Len(s)))

\* A filter that erases nothing.
KeepValue(s) == s

\* filterParameter(): erase every character outside SAFE_KEY_CHARS.
RECURSIVE FilterValue(_)
FilterValue(s) ==
    IF s = "" THEN ""
    ELSE (IF HasChar(SAFE_KEY_CHARS, CharAt(s, 1)) THEN CharAt(s, 1) ELSE "")
         \o FilterValue(SubSeq(s, 2, Len(s)))

\* ntos<T>(): decimal text of a number (CernVM/Utilities.h).
RECURSIVE NtoS(_)
NtoS(n) ==
    IF n < 0 THEN "-" \o NtoS(0 - n)
    ELSE IF n < 10 THEN CharAt("0123456789", n + 1)
    ELSE NtoS(n \div 10) \o CharAt("0123456789", (n % 10) + 1)

\* ston<T>(): the number a decimal text starts with, 0 when it starts with none
\* (CernVM/Utilities.h).
RECURSIVE StoNFrom(_, _)
StoNFrom(s, acc) ==
    IF s = "" \/ ~HasChar("0123456789", CharAt(s, 1)) THEN acc
    ELSE StoNFrom(SubSeq(s, 2, Len(s)),
                  10 * acc + (CHOOSE d \in 0..9 : CharAt("0123456789", d + 1) = CharAt(s, 1)))

StoN(s) == StoNFrom(s, 0)

(***************************************************************************)
(* State.                                                                  *)
(***************************************************************************)
VARIABLES
    \* ---- Parameter Store ----
    parameters,   \* the shared std::map: full key -> value
    nodes,        \* the ParameterMap objects: <<[prefix, parent, locked, changed]>>
    commits,      \* per node: commitChanges() calls made on it by the last operation
    wrote,        \* per node: a write was made on it since its last lock()
    pending,      \* per node: a write was made on it since it became locked
    last,         \* the last operation: [op, node, name, val]
    result,       \* what the last operation returned or exported to its caller
    \* ---- Download Provider (one CURLProvider instance) ----
    operationInstances,  \* the active-operation counter
    abortFlag,           \* abort the current transfer
    abortPersistsFlag,   \* keep abortFlag set after it has been observed
    fStreamOpen,         \* fStream is associated with a file
    progressOn,          \* the curl handle calls __curl_xferinfo on this provider
    calls,               \* per caller thread: its downloadFile/downloadText call
    abortAllCalled,      \* abortAll() has been called on the provider
    \* ---- Provisioning Pipeline ----
    job,                 \* the download job of the retry loop
    \* ---- Hypervisor Session ----
    state,               \* HVSession::state
    artifacts,           \* the parameters that reference artifacts: [disk, context]
    startCall,           \* the start() call in progress
    sessLast,            \* the last session operation and what it returned
    \* ---- Threads on one Parameter Store ----
    threads,             \* per thread: the multi-step store operation it is in
    \* ---- Progress feedback of one transfer ----
    clock,               \* what getMillis() returns
    progress,            \* the stream, the task `fb` and the callbacks delivered
    \* ---- Context Media Builder ----
    isoNow,              \* what time() and gmtime() return
    iso,                 \* the static buffers of the two builders
    \* ---- Hypervisor instance ----
    hv,                  \* sessions, openSessions and what sessionOpen returned
    \* ---- Session object ----
    hvSession            \* the fields of the HVSession constructed last

pmVars == <<parameters, nodes, commits, wrote, pending, last, result>>

dpVars == <<operationInstances, abortFlag, abortPersistsFlag, fStreamOpen, progressOn,
            calls, abortAllCalled>>

ppVars == <<job>>

ssVars == <<state, artifacts, startCall, sessLast>>

thVars == <<threads>>

fbVars == <<clock, progress>>

\* The components that are specified apart from the store, the provider, the
\* pipeline and the session.
isoVars == <<isoNow, iso>>

hvVars == <<hv>>

hsVars == <<hvSession>>

restVars == <<fbVars, isoVars, hvVars, hsVars>>

\* What the operations of one component leave alone.
notPM == <<dpVars, ppVars, ssVars, thVars, restVars>>
notDP == <<pmVars, ppVars, ssVars, thVars, restVars>>
notSS == <<pmVars, dpVars, ppVars, thVars, restVars>>
notFB == <<pmVars, dpVars, ppVars, ssVars, thVars, isoVars, hvVars, hsVars>>
notISO == <<pmVars, dpVars, ppVars, ssVars, thVars, fbVars, hvVars, hsVars>>
notHV == <<pmVars, dpVars, ppVars, ssVars, thVars, fbVars, isoVars, hsVars>>
notHS == <<dpVars, ppVars, ssVars, thVars, fbVars, isoVars, hvVars>>

vars == <<parameters, nodes, commits, wrote, pending, last, result,
          operationInstances, abortFlag, abortPersistsFlag, fStreamOpen, progressOn,
          calls, abortAllCalled, job, state, artifacts, startCall, sessLast, threads,
          clock, progress, isoNow, iso, hv, hvSession>>

NodeIds == 1..Len(nodes)

\* The places of the node table.
NodeSlots == 1..MaxNodes

\* The places of the node table where nested views are compared.
ViewSlots == 1..MaxViewNodes

EmptyMap == [k \in {} |-> ""]

NoOp == [op |-> "init", node |-> 1, name |-> "", val |-> ""]

\* ParameterMap() : parameters(), prefix(""), locked(false), parent(), changed(false)
NewRoot == [prefix |-> "", parent |-> 0, locked |-> FALSE, changed |-> FALSE]

\* ParameterMap(parentptr, pfx): shares the parent's map and mutex.
NewChild(p, pfx) == [prefix |-> pfx, parent |-> p, locked |-> FALSE, changed |-> FALSE]

\* What an operation hands back: keys (a std::vector of names), map (a std::map
\* the caller owns), str, num and flag (a returned string, number, bool), and
\* fresh (the shared map of a second, new store the caller imports into).
\* Operations that return *this or nothing hand back NoResult.
NoResult == [keys |-> <<>>, map |-> EmptyMap, str |-> "", num |-> 0, flag |-> FALSE,
             fresh |-> EmptyMap]

InitPM ==
    /\ parameters = EmptyMap
    /\ nodes = <<NewRoot>>
    /\ commits = <<0>>
    /\ wrote = <<FALSE>>
    /\ pending = <<FALSE>>
    /\ last = NoOp
    /\ result = NoResult

(***************************************************************************)
(* Parameter Store: helpers.                                               *)
(***************************************************************************)
\* putOnMap(): erase the key if present, then insert.
putOnMap(map, key, value) ==
    [k \in (DOMAIN map) \cup {key} |-> IF k = key THEN value ELSE map[k]]

\* std::map::erase(key)
eraseKey(map, key) == [k \in (DOMAIN map) \ {key} |-> map[k]]

\* An insert that replaces the value of a key that is present.
insertOverwrites(map, key, value) == putOnMap(map, key, value)

\* std::map::insert(pair): inserts only when the key is absent.
insertIfAbsent(map, key, value) ==
    IF key \in DOMAIN map THEN map ELSE putOnMap(map, key, value)

\* The nodes commitChanges() runs on when called on node n: n, then each ancestor.
RECURSIVE CommitChain(_, _)
CommitChain(ns, n) ==
    IF n = 0 THEN {} ELSE {n} \cup CommitChain(ns, ns[n].parent)

NoCommits == [m \in NodeIds |-> 0]

\* commitChanges() that does not forward the call to the parent.
commitChangesHere(c, n, times) ==
    [m \in DOMAIN c |-> IF m = n THEN c[m] + times ELSE c[m]]

\* commitChanges() called `times` times on node n.
commitChanges(c, n, times) ==
    [m \in DOMAIN c |-> IF m \in CommitChain(nodes, n) THEN c[m] + times ELSE c[m]]

\* enumKeys() for a prefix over a map: the matching keys with the prefix removed,
\* in map order.
\* enumKeys() without the test for a group separator in the rest of the key.
enumKeysDeep(map, pfx) ==
    LET match == {key \in DOMAIN map : Substr(key, 0, Len(pfx)) = pfx}
        sorted == SortedKeys(match)
    IN  [i \in 1..Len(sorted) |-> Substr(sorted[i], Len(pfx), Len(sorted[i]) - Len(pfx))]

\* enumKeys() over map `map` for a node with prefix pfx.
enumKeysOf(map, pfx) ==
    LET match == {key \in DOMAIN map :
                    /\ Substr(key, 0, Len(pfx)) = pfx
                    /\ ~HasSub(Substr(key, Len(pfx), Len(key) - Len(pfx)), PMAP_GROUP_SEPARATOR)}
        sorted == SortedKeys(match)
    IN  [i \in 1..Len(sorted) |-> Substr(sorted[i], Len(pfx), Len(sorted[i]) - Len(pfx))]

enumKeys(n) == enumKeysOf(parameters, nodes[n].prefix)

\* get() handing back the empty string std::map::operator[] yields for a key
\* that is absent.
getOrBlank(n, kname, defaultValue, strict) ==
    LET name == nodes[n].prefix \o (IF strict THEN SanitizeKey(kname) ELSE kname)
    IN  IF name \in DOMAIN parameters THEN parameters[name] ELSE ""

\* get(name, defaultValue, strict)
get(n, kname, defaultValue, strict) ==
    LET name == nodes[n].prefix \o (IF strict THEN SanitizeKey(kname) ELSE kname)
    IN  IF name \in DOMAIN parameters THEN parameters[name] ELSE defaultValue

\* contains(name, useBlank)
contains(n, name, useBlank) ==
    LET key == nodes[n].prefix \o name
        ans == key \in DOMAIN parameters
    IN  IF ans /\ useBlank THEN parameters[key] # "" ELSE ans

\* clear() erasing every key that starts with the node's prefix.
clearDeep(map, pfx) ==
    [k \in {key \in DOMAIN map : Substr(key, 0, Len(pfx)) # pfx} |-> map[k]]

\* clear(): erase the keys enumKeys() returns, each under the node's prefix.
clearOf(map, pfx) ==
    LET ks == enumKeysOf(map, pfx)
        gone == {pfx \o ks[i] : i \in 1..Len(ks)}
    IN  [k \in (DOMAIN map) \ gone |-> map[k]]

\* The tail shared by every committing write: commit when unlocked, else mark dirty.
\* `extra` counts the commitChanges() calls that reached node n from below
\* during the operation.
\* `res` is what the operation then returns.
commitOrMarkAnd(n, extra, opname, name, val, res) ==
    /\ nodes' = [nodes EXCEPT ![n].changed = IF nodes[n].locked THEN TRUE ELSE @]
    /\ commits' = commitChanges(NoCommits, n, extra + (IF nodes[n].locked THEN 0 ELSE 1))
    /\ wrote' = [wrote EXCEPT ![n] = IF nodes[n].locked THEN TRUE ELSE @]
    /\ pending' = [pending EXCEPT ![n] = IF nodes[n].locked THEN TRUE ELSE @]
    /\ last' = [op |-> opname, node |-> n, name |-> name, val |-> val]
    /\ result' = res

commitOrMark(n, extra, opname, name, val) ==
    commitOrMarkAnd(n, extra, opname, name, val, NoResult)

CommitOrMark(n, extra, opname, name, val) ==
    /\ commitOrMark(n, extra, opname, name, val)
    /\ UNCHANGED notPM

\* An operation that neither commits nor marks the node dirty.
noCommitAnd(n, opname, name, val, res) ==
    /\ commits' = NoCommits
    /\ last' = [op |-> opname, node |-> n, name |-> name, val |-> val]
    /\ result' = res
    /\ UNCHANGED <<nodes, wrote, pending>>

noCommit(n, opname, name, val) ==
    noCommitAnd(n, opname, name, val, NoResult)

NoCommit(n, opname, name, val) ==
    /\ noCommit(n, opname, name, val)
    /\ UNCHANGED notPM

(***************************************************************************)
(* Parameter Store: inputs of the operations.                              *)
(***************************************************************************)
\* Key and subgroup names passed by callers.
Names == {"a"}

\* String values passed by callers; "n!" holds a character outside SAFE_KEY_CHARS.
Values == {"1", "n!"}

\* Numbers passed to setNum.
Nums == {1}

\* The values filterParameter() meets: empty, made of illegal characters only,
\* mixed, and made of legal characters only.
FilterValues == {"", "!", "-!Z 9_", "1"}
FilterNames == {"a", "b"}

\* std::map arguments of fromMap.
MapInputs == {[a |-> "1"], [a |-> "n!"]}

\* Json::Value arguments of fromJSON: an object maps member names to tagged values.
JStr(s) == [t |-> "str", s |-> s]
JInt(i) == [t |-> "int", i |-> i]
JObj(o) == [t |-> "obj", o |-> o]
JOther == [t |-> "other"]
JsonInputs == {[a |-> JStr("n!")],
               [a |-> JInt(1), b |-> JOther],
               [a |-> JObj([a |-> JStr("n")])]}

\* Maps of a second, independent root store used as the source of fromParameters.
ExternalStores == {[a |-> "1"]}

\* What a read through a dangling reference may yield in place of the value.
Garbage == {""}

(***************************************************************************)
(* Parameter Store: operations.                                            *)
(***************************************************************************)
\* set(name, value), shared by setNum and setBool.
setOp(n, kname, value, opname) ==
    /\ parameters' = putOnMap(parameters, nodes[n].prefix \o kname, value)
    /\ CommitOrMark(n, 0, opname, kname, value)

Set(n, kname, value) ==
    /\ n \in NodeIds
    /\ setOp(n, kname, value, "set")

\* setNum<T>(name, value): set(name, ntos<T>(value))
SetNum(n, kname, value) ==
    /\ n \in NodeIds
    /\ setOp(n, kname, NtoS(value), "setNum")

\* setBool(name, value): "y" or "n"
SetBool(n, kname, value) ==
    /\ n \in NodeIds
    /\ setOp(n, kname, IF value THEN "y" ELSE "n", "setBool")

\* erase(name)
Erase(n, name) ==
    /\ n \in NodeIds
    /\ parameters' = eraseKey(parameters, nodes[n].prefix \o name)
    /\ NoCommit(n, "erase", name, "")

\* setDefault(name, value): std::map::insert, no commitChanges.
SetDefault(n, kname, value) ==
    /\ n \in NodeIds
    /\ parameters' = insertIfAbsent(parameters, nodes[n].prefix \o kname, value)
    /\ NoCommit(n, "setDefault", kname, value)

\* clear()
Clear(n) ==
    /\ n \in NodeIds
    /\ parameters' = clearOf(parameters, nodes[n].prefix)
    /\ NoCommit(n, "clear", "", "")

\* clearAll()
ClearAll(n) ==
    /\ n \in NodeIds
    /\ parameters' = EmptyMap
    /\ NoCommit(n, "clearAll", "", "")

\* lock()
Lock(n) ==
    /\ n \in NodeIds
    /\ nodes' = [nodes EXCEPT ![n].locked = TRUE, ![n].changed = FALSE]
    /\ commits' = NoCommits
    /\ wrote' = [wrote EXCEPT ![n] = FALSE]
    /\ pending' = [pending EXCEPT ![n] = IF nodes[n].locked THEN @ ELSE FALSE]
    /\ last' = [op |-> "lock", node |-> n, name |-> "", val |-> ""]
    /\ result' = NoResult
    /\ UNCHANGED parameters
    /\ UNCHANGED notPM

\* unlock(); the record of the operation tells an unlock() of a locked node from
\* one of a node that was not locked.
Unlock(n) ==
    /\ n \in NodeIds
    /\ nodes' = [nodes EXCEPT ![n].locked = FALSE]
    /\ commits' = commitChanges(NoCommits, n, IF nodes[n].changed THEN 1 ELSE 0)
    /\ last' = [op |-> IF nodes[n].locked THEN "unlock" ELSE "unlockIdle", node |-> n,
                name |-> "", val |-> ""]
    /\ result' = NoResult
    /\ UNCHANGED <<parameters, wrote, pending>>
    /\ UNCHANGED notPM

\* subgroup(): a prefix that drops the separator after the name.
subgroupPrefixBare(pfx, kname) == pfx \o kname

\* subgroup(): the prefix of the sub-group.
subgroupPrefix(pfx, kname) == pfx \o kname \o PMAP_GROUP_SEPARATOR

\* subgroup(name): a new node over the same map, prefix + name + separator;
\* `limit` bounds the number of nodes alive.
subgroupOp(n, kname, limit) ==
    /\ n \in NodeIds
    /\ Len(nodes) < limit
    /\ nodes' = Append(nodes, NewChild(n, subgroupPrefix(nodes[n].prefix, kname)))
    /\ commits' = [m \in 1..(Len(nodes) + 1) |-> 0]
    /\ wrote' = Append(wrote, FALSE)
    /\ pending' = Append(pending, FALSE)
    /\ last' = [op |-> "subgroup", node |-> n, name |-> kname, val |-> ""]
    /\ result' = NoResult
    /\ UNCHANGED parameters
    /\ UNCHANGED notPM

Subgroup(n, kname) ==
    /\ n \in NodeIds
    /\ subgroupOp(n, kname, MaxNodes)

\* subgroup(name) where nested views are compared.
SubgroupView(n, kname) ==
    /\ n \in NodeIds
    /\ subgroupOp(n, kname, MaxViewNodes)

\* A returned bool.
Flag(b) == [NoResult EXCEPT !.flag = b]

\* filterParameter(parameter): true for a key that is not in the map; a value
\* is written back only when a character was erased from it, and false is
\* returned only when that left it empty.
FilterParameter(n, parameter) ==
    /\ n \in NodeIds
    /\ UNCHANGED notPM
    /\ IF ~contains(n, parameter, FALSE)
       THEN /\ noCommitAnd(n, "filterParameter", parameter, "", Flag(TRUE))
            /\ UNCHANGED parameters
       ELSE LET value == get(n, parameter, "", FALSE)
                filtered == FilterValue(value)
                valueWithInvalidChar == filtered # value
            IN  IF valueWithInvalidChar
                THEN /\ parameters' = putOnMap(parameters, nodes[n].prefix \o parameter,
                                               filtered)
                     /\ commitOrMarkAnd(n, 0, "filterParameter", parameter, filtered,
                                        Flag(filtered # ""))
                ELSE /\ noCommitAnd(n, "filterParameter", parameter, value, Flag(TRUE))
                     /\ UNCHANGED parameters

\* The update loop of fromMap().
fromMapLoop(map, pfx, m, replace) ==
    LET new == {pfx \o key : key \in DOMAIN m}
    IN  [k \in (DOMAIN map) \cup new |->
            IF k \in new /\ (replace \/ k \notin DOMAIN map)
            THEN m[Substr(k, Len(pfx), Len(k) - Len(pfx))]
            ELSE map[k]]

\* fromMap(map, clearBefore, replace) with a map.
FromMap(n, m, clearBefore, replace) ==
    LET map0 == IF clearBefore THEN clearOf(parameters, nodes[n].prefix) ELSE parameters
    IN  /\ n \in NodeIds
        /\ parameters' = fromMapLoop(map0, nodes[n].prefix, m, replace)
        /\ CommitOrMark(n, 0, "fromMap", "", "")

\* fromMap(NULL, clearBefore, replace): returns after the optional clear().
FromMapNull(n, clearBefore) ==
    /\ n \in NodeIds
    /\ parameters' = IF clearBefore THEN clearOf(parameters, nodes[n].prefix) ELSE parameters
    /\ NoCommit(n, "fromMapNull", "", "")

\* The member loop of fromJSON() on a node with prefix pfx: [p: the map after it,
\* c: the commitChanges() calls made by the subgroups it created].
RECURSIVE fromJSONLoop(_, _, _, _, _)
fromJSONLoop(map, pfx, json, membNames, replace) ==
    IF membNames = <<>> THEN [p |-> map, c |-> 0]
    ELSE LET k == Head(membNames)
             v == json[k]
             here ==
                IF v.t = "obj"
                THEN \* sg = subgroup(k); sg->fromJSON(v): defaults clearBefore=false,
                     \* replace=true; sg is unlocked, so it commits through its parent.
                     LET r == fromJSONLoop(map, pfx \o k \o PMAP_GROUP_SEPARATOR, v.o,
                                           SortedKeys(DOMAIN v.o), TRUE)
                     IN  [p |-> r.p, c |-> r.c + 1]
                ELSE IF v.t = "str"
                THEN [p |-> IF replace \/ k \notin DOMAIN map
                            THEN putOnMap(map, k, v.s) ELSE map,
                      c |-> 0]
                ELSE IF v.t = "int"
                THEN [p |-> IF replace \/ k \notin DOMAIN map
                            THEN putOnMap(map, k, NtoS(v.i)) ELSE map,
                      c |-> 0]
                ELSE [p |-> map, c |-> 0]
             rest == fromJSONLoop(here.p, pfx, json, Tail(membNames), replace)
         IN  [p |-> rest.p, c |-> here.c + rest.c]

\* fromJSON(json, clearBefore, replace)
FromJSON(n, json, clearBefore, replace) ==
    LET map0 == IF clearBefore THEN clearOf(parameters, nodes[n].prefix) ELSE parameters
        r == fromJSONLoop(map0, nodes[n].prefix, json, SortedKeys(DOMAIN json), replace)
    IN  /\ n \in NodeIds
        /\ parameters' = r.p
        /\ CommitOrMark(n, r.c, "fromJSON", "", "")

\* The update loop of fromParameters() when ptr shares this node's map:
\* [p: the map after it, thrown: std::map::at threw].  The logged
\* ptr->parameters->at(*it) and the copied (*ptr->parameters)[*it] both use the key
\* without ptr's prefix; operator[] inserts an empty value when it is absent.  When
\* the key written is the key read, putOnMap erases the entry its value argument
\* refers to: the value stored is then `dangling`, or the value itself when
\* dangling = "intact".  logging: the build evaluates the arguments of CVMWA_LOG.
RECURSIVE fromParametersLoop(_, _, _, _, _, _)
fromParametersLoop(map, pfx, ptrKeys, replace, dangling, logging) ==
    IF ptrKeys = <<>> THEN [p |-> map, thrown |-> FALSE]
    ELSE LET it == Head(ptrKeys)
             k == pfx \o it
         IN  IF logging /\ it \notin DOMAIN map
             THEN [p |-> map, thrown |-> TRUE]
             ELSE IF replace \/ k \notin DOMAIN map
             THEN LET m1 == insertIfAbsent(map, it, "")
                      val == IF k = it /\ dangling # "intact" THEN dangling ELSE m1[it]
                  IN  fromParametersLoop(putOnMap(m1, k, val), pfx, Tail(ptrKeys),
                                         replace, dangling, logging)
             ELSE fromParametersLoop(map, pfx, Tail(ptrKeys), replace, dangling, logging)

\* fromParameters(ptr, clearBefore, replace) with ptr a node of the same root.
FromParameters(n, src, clearBefore, replace, dangling, logging) ==
    LET map0 == IF clearBefore THEN clearOf(parameters, nodes[n].prefix) ELSE parameters
        r == fromParametersLoop(map0, nodes[n].prefix, enumKeysOf(map0, nodes[src].prefix),
                                replace, dangling, logging)
    IN  /\ n \in NodeIds
        /\ src \in NodeIds
        /\ parameters' = r.p
        /\ IF r.thrown
           THEN NoCommit(n, "fromParametersThrown", "", "")
           ELSE CommitOrMark(n, 0, "fromParameters", "", "")

\* fromParameters(ptr, clearBefore, replace) with ptr the root of another store
\* whose map is ext: every key enumKeys() returns is a key of ext.
FromParametersExt(n, ext, clearBefore, replace) ==
    LET map0 == IF clearBefore THEN clearOf(parameters, nodes[n].prefix) ELSE parameters
        ks == enumKeysOf(ext, "")
        view == [key \in {ks[i] : i \in 1..Len(ks)} |-> ext[key]]
    IN  /\ n \in NodeIds
        /\ parameters' = fromMapLoop(map0, nodes[n].prefix, view, replace)
        /\ CommitOrMark(n, 0, "fromParameters", "", "")

\* The outcomes of the dangling read in fromParameters().
DanglingOutcomes == Garbage \cup {"intact"}

\* The tail shared by the operations that only read: they hand `res` back and
\* touch neither the map nor the commit state.
returns(n, opname, name, res) ==
    /\ result' = res
    /\ last' = [op |-> opname, node |-> n, name |-> name, val |-> ""]
    /\ commits' = NoCommits
    /\ UNCHANGED <<nodes, wrote, pending>>

readOp(n, opname, name, res) ==
    /\ returns(n, opname, name, res)
    /\ UNCHANGED parameters
    /\ UNCHANGED notPM

\* enumKeys()
EnumKeys(n) ==
    /\ n \in NodeIds
    /\ readOp(n, "enumKeys", "", [NoResult EXCEPT !.keys = enumKeys(n)])

\* The loop of toMap() inserting each value under its full key.
toMapLoopQualified(map, pfx, dest) ==
    LET ks == enumKeysOf(map, pfx)
        full == {pfx \o ks[i] : i \in 1..Len(ks)}
    IN  [k \in (DOMAIN dest) \cup full |-> IF k \in DOMAIN dest THEN dest[k] ELSE map[k]]

\* The loop of toMap(): std::map::insert of (name, value) for every name of
\* enumKeys(); insert leaves a name the destination already holds.
toMapLoop(map, pfx, dest) ==
    LET ks == enumKeysOf(map, pfx)
        names == {ks[i] : i \in 1..Len(ks)}
    IN  [k \in (DOMAIN dest) \cup names |->
            IF k \in DOMAIN dest THEN dest[k] ELSE map[pfx \o k]]

\* toMap(map, clearBefore) into the caller's map `dest`: "toMap" when the
\* destination is empty or cleared, "toMapMerge" when it keeps entries.
ToMap(n, dest, clearBefore) ==
    LET dest0 == IF clearBefore THEN EmptyMap ELSE dest
    IN  /\ n \in NodeIds
        /\ readOp(n, IF dest0 = EmptyMap THEN "toMap" ELSE "toMapMerge", "",
                  [NoResult EXCEPT !.map = toMapLoop(parameters, nodes[n].prefix, dest0)])

\* fromMap(map, false, true) of the map toMap() just filled, on a node with the
\* same prefix over a new, empty store (ParameterMap::instance() and the same
\* subgroup() calls).
FromMapFresh(n) ==
    /\ n \in NodeIds
    /\ last.node = n
    /\ last.op \in {"toMap", "toMapMerge"}
    /\ readOp(n, IF last.op = "toMap" THEN "roundTrip" ELSE "roundTripMerge", "",
              [result EXCEPT !.fresh = fromMapLoop(EmptyMap, nodes[n].prefix, result.map, TRUE)])

\* get(name, defaultValue, strict)
Get(n, kname, defaultValue, strict) ==
    /\ n \in NodeIds
    /\ readOp(n, "get", kname, [NoResult EXCEPT !.str = get(n, kname, defaultValue, strict)])

\* getNum<T>(name, defaultValue)
getNum(n, kname, defaultValue) ==
    LET name == nodes[n].prefix \o kname
    IN  IF name \in DOMAIN parameters THEN StoN(parameters[name]) ELSE defaultValue

GetNum(n, kname, defaultValue) ==
    /\ n \in NodeIds
    /\ readOp(n, "getNum", kname, [NoResult EXCEPT !.num = getNum(n, kname, defaultValue)])

\* A getBool() that reads nothing.
getBoolDefault(n, name, defaultValue) == defaultValue

\* getBool(name, defaultValue)
getBool(n, name, defaultValue) ==
    LET v == get(n, name, "", FALSE)
    IN  IF v = "" THEN defaultValue ELSE CharAt(v, 1) \in {"y", "t", "1"}

GetBool(n, name, defaultValue) ==
    /\ n \in NodeIds
    /\ readOp(n, "getBool", name, [NoResult EXCEPT !.flag = getBool(n, name, defaultValue)])

\* contains(name, useBlank)
Contains(n, name, useBlank) ==
    /\ n \in NodeIds
    /\ readOp(n, "contains", name, [NoResult EXCEPT !.flag = contains(n, name, useBlank)])

NextPM ==
    \E n \in NodeSlots :
        \/ \E k \in Names, v \in Values : Set(n, k, v)
        \/ \E k \in Names, i \in Nums : SetNum(n, k, i)
        \/ \E k \in Names, b \in {FALSE} : SetBool(n, k, b)
        \/ \E k \in Names : Erase(n, k)
        \/ \E k \in Names, v \in Values : SetDefault(n, k, v)
        \/ Clear(n)
        \/ ClearAll(n)
        \/ Lock(n)
        \/ Unlock(n)
        \/ \E k \in Names : Subgroup(n, k)
        \/ \E k \in Names : FilterParameter(n, k)
        \/ \E m \in MapInputs, cb, rep \in BOOLEAN : FromMap(n, m, cb, rep)
        \/ \E cb \in BOOLEAN : FromMapNull(n, cb)
        \/ \E j \in JsonInputs, cb, rep \in BOOLEAN : FromJSON(n, j, cb, rep)
        \/ \E s \in NodeSlots, cb, rep, lg \in BOOLEAN, d \in DanglingOutcomes :
              FromParameters(n, s, cb, rep, d, lg)
        \/ \E e \in ExternalStores, cb, rep \in BOOLEAN : FromParametersExt(n, e, cb, rep)

(***************************************************************************)
(* Result codes and session states.                                        *)
(***************************************************************************)
\* Hypervisor.h:70
HVE_OK == 0
\* Hypervisor.h:73
HVE_CONTROL_ERROR == -3
\* Hypervisor.h:76
HVE_IO_ERROR == -6
\* Hypervisor.h:77
HVE_EXTERNAL_ERROR == -7
\* Hypervisor.h:78
HVE_INVALID_STATE == -8
\* Hypervisor.h:82
HVE_NOT_VALIDATED == -12

HVE_NOT_TRUSTED == -13

\* enum HVSessionState, Hypervisor.h:50-57
SS_MISSING == 0
SS_AVAILABLE == 1
SS_POWEROFF == 2
SS_SAVED == 3
SS_PAUSED == 4
SS_RUNNING == 5

(***************************************************************************)
(* Download Provider.                                                      *)
(***************************************************************************)
\* The threads that call downloadFile/downloadText on the provider.
Callers == {1, 2}

\* A caller's call.  pc: where the call stands; kind: "file" or "text"; tmp: the
\* value of operationInstances it read for ++ or --; destOK: the destination can be
\* opened for writing; polled: __curl_xferinfo ran in this transfer; returned/ret:
\* the call has returned ret; cause: which exit path it took.  History of the
\* call: afterAll (it started after an abortAll()), sticky (both abort flags were
\* set when it started), abortDuring (abort() or abortAll() was called between
\* its entry and its return), touched (it opened the destination or started the
\* transport).
IdleCall == [pc |-> "idle", kind |-> "file", tmp |-> 0, destOK |-> TRUE, polled |-> FALSE,
             returned |-> FALSE, ret |-> HVE_OK, cause |-> "none",
             afterAll |-> FALSE, sticky |-> FALSE, abortDuring |-> FALSE,
             touched |-> FALSE]

InFlight(c) == c.pc # "idle"

\* CURLProvider(): no operation, no abort requested, stream closed; the handle's
\* progress meter is on or off as the constructor left it.
InitDP ==
    /\ operationInstances = 0
    /\ abortFlag = FALSE
    /\ abortPersistsFlag = FALSE
    /\ fStreamOpen = FALSE
    /\ progressOn \in BOOLEAN
    /\ calls = [t \in Callers |-> IdleCall]
    /\ abortAllCalled = FALSE

\* downloadFile()/downloadText() entry: operationInstances++ reads the counter.
beginDownload(t, kind, destOK) ==
    /\ calls[t].pc = "idle"
    /\ calls' = [calls EXCEPT ![t] =
                    [IdleCall EXCEPT !.pc = "inc", !.kind = kind, !.tmp = operationInstances,
                                     !.destOK = destOK, !.afterAll = abortAllCalled,
                                     !.sticky = abortFlag /\ abortPersistsFlag]]
    /\ UNCHANGED <<operationInstances, abortFlag, abortPersistsFlag, fStreamOpen,
                   progressOn, abortAllCalled>>

BeginDownload(t, kind, destOK) ==
    /\ beginDownload(t, kind, destOK)
    /\ UNCHANGED notDP

\* ... and writes it back incremented; the options of the transfer are then set
\* on the handle.  downloadFile() sets CURLOPT_XFERINFODATA and CURLOPT_NOPROGRESS=0,
\* downloadText() sets neither: the handle keeps what an earlier call left.
IncrementInstances(t) ==
    /\ calls[t].pc = "inc"
    /\ operationInstances' = calls[t].tmp + 1
    /\ progressOn' = (progressOn \/ calls[t].kind = "file")
    /\ calls' = [calls EXCEPT ![t].pc = IF calls[t].kind = "file" THEN "open" ELSE "perform"]
    /\ UNCHANGED <<abortFlag, abortPersistsFlag, fStreamOpen, abortAllCalled, notDP>>

\* downloadFile(): fStream.clear(); fStream.open(destination); open() fails on a
\* stream that is already open and on a destination that cannot be written.
OpenStream(t) ==
    /\ calls[t].pc = "open"
    /\ IF fStreamOpen \/ ~calls[t].destOK
       THEN /\ calls' = [calls EXCEPT ![t].pc = "dec", ![t].ret = HVE_IO_ERROR,
                                       ![t].cause = "open"]
            /\ UNCHANGED fStreamOpen
       ELSE /\ fStreamOpen' = TRUE
            /\ calls' = [calls EXCEPT ![t].pc = "perform", ![t].touched = TRUE]
    /\ UNCHANGED <<operationInstances, abortFlag, abortPersistsFlag, progressOn,
                   abortAllCalled, notDP>>

\* __curl_xferinfo(): the progress checkpoint of curl_easy_perform, run when the
\* handle's progress meter is on.
XferInfo(t) ==
    /\ calls[t].pc = "perform"
    /\ progressOn
    /\ IF abortFlag
       THEN /\ abortFlag' = abortPersistsFlag
            /\ calls' = [calls EXCEPT ![t].pc = "dec", ![t].ret = HVE_IO_ERROR,
                                       ![t].cause = "abort", ![t].touched = TRUE,
                                       ![t].polled = TRUE]
       ELSE /\ calls' = [calls EXCEPT ![t].polled = TRUE, ![t].touched = TRUE]
            /\ UNCHANGED abortFlag
    /\ UNCHANGED <<operationInstances, abortPersistsFlag, fStreamOpen, progressOn,
                   abortAllCalled, notDP>>

\* curl_easy_perform() returns an error of the transport: res != CURLE_OK.
TransportFails(t) ==
    /\ calls[t].pc = "perform"
    /\ calls' = [calls EXCEPT ![t].pc = "dec", ![t].ret = HVE_IO_ERROR,
                               ![t].cause = "transport", ![t].touched = TRUE]
    /\ UNCHANGED <<operationInstances, abortFlag, abortPersistsFlag, fStreamOpen,
                   progressOn, abortAllCalled, notDP>>

\* curl_easy_perform() returns CURLE_OK; with the progress meter on, the transport
\* has run its progress checkpoint at least once by then.
TransportCompletes(t) ==
    /\ calls[t].pc = "perform"
    /\ progressOn => calls[t].polled
    /\ calls' = [calls EXCEPT ![t].pc = IF calls[t].kind = "file" THEN "close" ELSE "dec",
                               ![t].ret = HVE_OK, ![t].cause = "none",
                               ![t].touched = TRUE]
    /\ UNCHANGED <<operationInstances, abortFlag, abortPersistsFlag, fStreamOpen,
                   progressOn, abortAllCalled, notDP>>

\* downloadFile(): fStream.close() on the success path.
CloseStream(t) ==
    /\ calls[t].pc = "close"
    /\ fStreamOpen' = FALSE
    /\ calls' = [calls EXCEPT ![t].pc = "dec"]
    /\ UNCHANGED <<operationInstances, abortFlag, abortPersistsFlag, progressOn,
                   abortAllCalled, notDP>>

\* operationInstances-- reads the counter...
BeginDecrement(t) ==
    /\ calls[t].pc = "dec"
    /\ calls' = [calls EXCEPT ![t].pc = "ret", ![t].tmp = operationInstances]
    /\ UNCHANGED <<operationInstances, abortFlag, abortPersistsFlag, fStreamOpen,
                   progressOn, abortAllCalled, notDP>>

\* ... writes it back decremented, and the call returns.
ReturnDownload(t) ==
    /\ calls[t].pc = "ret"
    /\ operationInstances' = calls[t].tmp - 1
    /\ calls' = [calls EXCEPT ![t].pc = "idle", ![t].returned = TRUE]
    /\ UNCHANGED <<abortFlag, abortPersistsFlag, fStreamOpen, progressOn, abortAllCalled,
                   notDP>>

\* The calls that have entered and not returned hear of an abort request.
noteAbort == [t \in Callers |-> IF InFlight(calls[t])
                                 THEN [calls[t] EXCEPT !.abortDuring = TRUE]
                                 ELSE calls[t]]

\* abort()
Abort ==
    /\ IF operationInstances > 0
       THEN /\ abortFlag' = TRUE
            /\ abortPersistsFlag' = FALSE
       ELSE UNCHANGED <<abortFlag, abortPersistsFlag>>
    /\ calls' = noteAbort
    /\ UNCHANGED <<operationInstances, fStreamOpen, progressOn, abortAllCalled, notDP>>

\* abortAll()
AbortAll ==
    /\ abortFlag' = TRUE
    /\ abortPersistsFlag' = TRUE
    /\ abortAllCalled' = TRUE
    /\ calls' = noteAbort
    /\ UNCHANGED <<operationInstances, fStreamOpen, progressOn, notDP>>

\* One thread downloads; any thread may request an abort at any time.
NextDP ==
    \/ \E t \in {1} :
          \/ \E kind \in {"file", "text"}, destOK \in BOOLEAN : BeginDownload(t, kind, destOK)
          \/ IncrementInstances(t)
          \/ OpenStream(t)
          \/ XferInfo(t)
          \/ TransportFails(t)
          \/ TransportCompletes(t)
          \/ CloseStream(t)
          \/ BeginDecrement(t)
          \/ ReturnDownload(t)
    \/ Abort
    \/ AbortAll

\* How far the counter may be from 0 for one more call to be followed.
MaxDrift == 1

\* downloadFile()/downloadText() entry on a provider several threads download on.
BeginShared(t, kind, destOK) ==
    /\ operationInstances <= MaxDrift
    /\ operationInstances >= 0 - MaxDrift
    /\ beginDownload(t, kind, destOK)
    /\ UNCHANGED notDP

\* Every thread may download on the provider, and any thread may request an
\* abort at any time.
NextDPShared ==
    \/ \E t \in Callers :
          \/ \E kind \in {"file", "text"}, destOK \in BOOLEAN : BeginShared(t, kind, destOK)
          \/ IncrementInstances(t)
          \/ OpenStream(t)
          \/ XferInfo(t)
          \/ TransportFails(t)
          \/ TransportCompletes(t)
          \/ CloseStream(t)
          \/ BeginDecrement(t)
          \/ ReturnDownload(t)
    \/ Abort
    \/ AbortAll

(***************************************************************************)
(* Download Provider: progress feedback.  One transfer writes the data it   *)
(* receives to its stream and reports the position to the task `fb`.       *)
(***************************************************************************)
\* The throttle interval in milliseconds (CernVM/DownloadProvider.h).
DP_THROTTLE_TIMER == 500

\* The clock stops here.
MaxClock == 1500

\* The time that passes between two calls, and between the two getMillis()
\* calls of one fireProgressEvent().
ClockSteps == {100, 400}
ClockJitter == {0, 100}

\* The stream holds at most this many bytes.
MaxStream == 4

\* The Content-Length values announced (0: none) and the sizes of the data
\* chunks.
StreamSizes == {0, 3}
ChunkSizes == {1, 2}

NoEvent == [time |-> 0, pos |-> 0, at |-> 0]

\* maxStreamSize and the stream position; fb->__lastEventTime; the task's max
\* and position; cur and prev, the last two callbacks delivered to the task
\* (0 in `at` when there is none), and `events`, their number.
IdleProgress == [active |-> FALSE, maxStreamSize |-> 0, written |-> 0,
                 lastEventTime |-> 0, taskMax |-> 0, taskPos |-> 0,
                 prev |-> NoEvent, cur |-> NoEvent, events |-> 0]

InitProgress ==
    /\ clock = 0
    /\ progress = IdleProgress

\* fireProgressEvent() delivering every call.
Unthrottled(pos, max, elapsed) == FALSE

\* fireProgressEvent(): the test that drops a call.
Throttled(pos, max, elapsed) == (pos # max) /\ (elapsed < DP_THROTTLE_TIMER)

\* Time passes.
Tick(d) ==
    /\ clock + d <= MaxClock
    /\ clock' = clock + d
    /\ UNCHANGED progress
    /\ UNCHANGED notFB

\* downloadFile()/downloadText() up to curl_easy_perform(): maxStreamSize = 0 and
\* pf->__lastEventTime = getMillis().
TransferStart ==
    /\ progress' = [IdleProgress EXCEPT !.active = TRUE, !.lastEventTime = clock]
    /\ UNCHANGED clock
    /\ UNCHANGED notFB

\* __curl_headerfunc() on a Content-Length header.
HeaderContentLength(size) ==
    /\ progress.active
    /\ progress.written = 0
    /\ progress' = [progress EXCEPT !.maxStreamSize = size]
    /\ UNCHANGED clock
    /\ UNCHANGED notFB

\* __curl_datacb_file() / __curl_datacb_string(): writeToStream() of a chunk, and
\* fireProgressEvent() when the size is known.  `jitter` passes between the
\* getMillis() of the test and the one stored in __lastEventTime.
WriteToStream(data, jitter) ==
    LET cur_size == progress.written + data
        max == progress.maxStreamSize
        fire == max # 0 /\ ~Throttled(cur_size, max, clock - progress.lastEventTime)
    IN  /\ progress.active
        /\ cur_size <= MaxStream
        /\ fire => clock + jitter <= MaxClock
        /\ clock' = IF fire THEN clock + jitter ELSE clock
        /\ progress' =
              IF fire
              THEN [progress EXCEPT !.written = cur_size,
                                    !.lastEventTime = clock + jitter,
                                    !.taskMax = max, !.taskPos = cur_size,
                                    !.prev = progress.cur,
                                    !.cur = [time |-> clock + jitter, pos |-> cur_size,
                                             at |-> progress.events + 1],
                                    !.events = progress.events + 1]
              ELSE [progress EXCEPT !.written = cur_size]
        /\ UNCHANGED notFB

NextProgress ==
    \/ \E d \in ClockSteps : Tick(d)
    \/ TransferStart
    \/ \E size \in StreamSizes : HeaderContentLength(size)
    \/ \E data \in ChunkSizes, jitter \in ClockJitter : WriteToStream(data, jitter)

(***************************************************************************)
(* Context Media Builder (contextiso.cpp).  A buffer is held as the set of  *)
(* extents written to it since it was zeroed: bytes from..to-1 hold the     *)
(* bytes of `src` starting at its byte from-base.  The 8-byte fields that   *)
(* isosetl() patches inside the directory tables are held by name, since    *)
(* their offsets (iso9660.h) are not part of the sources.                   *)
(***************************************************************************)
CONTEXTISO_CDROM_SIZE == 358400
PRIMARY_DESCRIPTOR_OFFSET == 32768
SECONDARY_DIRECTORY_RECORD_OFFSET == 47104
CONTENTS_OFFSET == 49152
README_CONTENT_OFFSET == 57344
EC_META_CONTENT_OFFSET == 59392
EC_USER_CONTENT_OFFSET == 61440
OS_META_CONTENT_OFFSET == 63488
OS_USER_CONTENT_OFFSET == 65536

\* The 2kB block of the offset alignment and of the volume size.
SECTOR == 2048

\* strlen(README_CONTENT) and strlen(META_DATA_CONTENT).
readmeSize == 489
metaDataContentSize == 55

\* The / of C truncates towards zero.
CDiv(a, b) == IF a >= 0 THEN a \div b ELSE 0 - ((0 - a) \div b)

\* isosetl() writing both halves in little-endian order.
isosetlLittle(x) ==
    LET b(k) == (x \div k) % 256
    IN  <<b(1), b(256), b(65536), b(16777216), b(1), b(256), b(65536), b(16777216)>>

\* isosetl(): the eight bytes written for the 32-bit int x.  (x >> k) & 0xFF is
\* the byte of x's two's complement, for a negative x too: \div rounds down as
\* the shift does.
isosetl(x) ==
    LET b(k) == (x \div k) % 256
    IN  <<b(1), b(256), b(65536), b(16777216), b(16777216), b(65536), b(256), b(1)>>

\* %02u / %04u of sprintf: at least w digits, padded with zeros.
RECURSIVE ZeroPad(_, _)
ZeroPad(str, w) == IF Len(str) >= w THEN str ELSE ZeroPad("0" \o str, w)

\* The broken-down UTC times gmtime() returns in the model: 2013-01-31 23:59:58
\* and 2014-12-01 00:00:00 (tm_year counts from 1900, tm_mon from 0).
FirstTime ==
    [tm_year |-> 113, tm_mon |-> 0, tm_mday |-> 31, tm_hour |-> 23, tm_min |-> 59, tm_sec |-> 58]

Times ==
    { FirstTime,
      [tm_year |-> 114, tm_mon |-> 11, tm_mday |-> 1, tm_hour |-> 0, tm_min |-> 0, tm_sec |-> 0] }

\* sprintf(dateNow, "%04u%02u%02u%02u%02u%02u000", ...); 17 of its bytes are copied.
dateNow(tm) ==
    SubSeq(ZeroPad(NtoS(tm.tm_year + 1900), 4) \o ZeroPad(NtoS(tm.tm_mon), 2)
             \o ZeroPad(NtoS(tm.tm_mday), 2) \o ZeroPad(NtoS(tm.tm_hour), 2)
             \o ZeroPad(NtoS(tm.tm_min), 2) \o ZeroPad(NtoS(tm.tm_sec), 2) \o "000", 1, 17)

dateZero == "00000000000000000"

\* volume_id in the descriptor: 31 bytes, blank padded.
RECURSIVE BlankPad(_, _)
BlankPad(str, w) == IF Len(str) >= w THEN SubSeq(str, 1, w) ELSE BlankPad(str \o " ", w)

\* What an extent holds: a template of iso9660.h, a text of contextiso.cpp, the
\* caller's content (named by `id`), or the primary descriptor with its fields.
Src(what) == [what |-> what, id |-> 0, volume_id |-> "", creation_date |-> "",
              modification_date |-> "", effective_date |-> "",
              expiration_date |-> "", volume_space_size |-> <<>>]

\* descPrimary as build_*_cdrom() fill it in.
descPrimary(template, volume_id, tm, lVolSize) ==
    [Src(template) EXCEPT !.volume_id = BlankPad(volume_id, 31),
                          !.creation_date = dateNow(tm),
                          !.modification_date = dateNow(tm),
                          !.effective_date = dateNow(tm),
                          !.expiration_date = dateZero,
                          !.volume_space_size = isosetl(lVolSize)]

\* The fields patched by name; <<>> and "" stand for what the template holds.
AmiFields == {"AT_D800_META_EXTENT", "AT_D800_USER_EXTENT", "AT_B800_README_SIZE",
              "AT_C800_META_DATA_SIZE", "AT_C800_USER_DATA_SIZE",
              "AT_D800_META_DATA_SIZE", "AT_D800_USER_DATA_SIZE"}

\* memset(&bytes, 0, CONTEXTISO_CDROM_SIZE); `overrun` tells whether the call
\* wrote past the end of the buffer.
Zeroed == [ext |-> {}, fld |-> [f \in AmiFields |-> <<>>], size |-> <<>>, name |-> "",
           overrun |-> FALSE]

\* A build that leaves the buffer as the call before left it.
NotZeroed(b) == [b EXCEPT !.overrun = FALSE]

\* The start of every build.
memset(b) == Zeroed

\* What is left of extent e when from..to-1 is overwritten.
Pieces(e, from, to) ==
    {p \in {[e EXCEPT !.to = IF e.to < from THEN e.to ELSE from],
            [e EXCEPT !.from = IF e.from > to THEN e.from ELSE to]} : p.from < p.to}

\* memcpy(&bytes[at], src, len).  Bytes at or beyond the capacity land outside
\* the buffer.
memcpy(b, at, src, len) ==
    LET to == IF at + len > CONTEXTISO_CDROM_SIZE THEN CONTEXTISO_CDROM_SIZE ELSE at + len
    IN  [b EXCEPT !.ext = IF at < to
                          THEN (UNION {Pieces(e, at, to) : e \in b.ext})
                                 \cup {[from |-> at, to |-> to, base |-> at, src |-> src]}
                          ELSE b.ext,
                  !.overrun = b.overrun \/ (len > 0 /\ at + len > CONTEXTISO_CDROM_SIZE)]

\* while (offset % 2048) ++offset;
AlignSector(offset) ==
    IF offset % SECTOR = 0 THEN offset ELSE offset + (SECTOR - (offset % SECTOR))

\* The directory tables of the two-convention image, one sector apart or more;
\* their sizes (iso9660.h) are taken to fill the sector.
AmiTables == << [at |-> 34816, what |-> "ISO9660_AT_8800"], [at |-> 38912, what |-> "AT_9800"],
                [at |-> 43008, what |-> "AT_A800"], [at |-> 47104, what |-> "AT_B800"],
                [at |-> 49152, what |-> "AT_C000"], [at |-> 51200, what |-> "AT_C800"],
                [at |-> 53248, what |-> "AT_D000"], [at |-> 55296, what |-> "AT_D800"] >>

SimpleTables == << [at |-> 34816, what |-> "ISO9660_AT_8800"],
                   [at |-> 38912, what |-> "ISO9660_AT_9800"],
                   [at |-> 43008, what |-> "ISO9660_AT_A800"],
                   [at |-> SECONDARY_DIRECTORY_RECORD_OFFSET,
                    what |-> "ISO9660_CONTEXT_SH_STRUCT"] >>

RECURSIVE copyTables(_, _)
copyTables(b, tables) ==
    IF tables = <<>> THEN b
    ELSE copyTables(memcpy(b, Head(tables).at, Src(Head(tables).what), SECTOR), Tail(tables))

\* lDataSize and lVolSize of build_ami_ci_cdrom().
amiDataSize(contentSize) ==
    LET lDataSize == 2 * contentSize + 2 * metaDataContentSize + readmeSize
    IN  IF lDataSize > CONTEXTISO_CDROM_SIZE - CONTENTS_OFFSET
        THEN CONTEXTISO_CDROM_SIZE - CONTENTS_OFFSET
        ELSE lDataSize

volSize(lDataSize) == 1 + CDiv(lDataSize - 1, SECTOR)

\* The relocation that never moves convention B.
osOffsetsFixed(contentSize) ==
    [meta |-> OS_META_CONTENT_OFFSET, user |-> OS_USER_CONTENT_OFFSET, moved |-> FALSE]

\* osMetaOffset and osUserOffset of build_ami_ci_cdrom().
osOffsets(contentSize) ==
    IF EC_USER_CONTENT_OFFSET + contentSize >= OS_META_CONTENT_OFFSET
    THEN LET osMetaOffset == AlignSector(EC_USER_CONTENT_OFFSET + contentSize + 1)
         IN  [meta |-> osMetaOffset,
              user |-> AlignSector(osMetaOffset + metaDataContentSize + 1),
              moved |-> TRUE]
    ELSE [meta |-> OS_META_CONTENT_OFFSET, user |-> OS_USER_CONTENT_OFFSET, moved |-> FALSE]

\* build_ami_ci_cdrom(volume_id, content, contentSize) on the static buffer b at
\* time tm; `content` names the caller's bytes.
build_ami_ci_cdrom(b, volume_id, content, contentSize, tm) ==
    LET lVolSize == volSize(amiDataSize(contentSize))
        os == osOffsets(contentSize)
        b1 == memcpy(memset(b), PRIMARY_DESCRIPTOR_OFFSET,
                     descPrimary("PRIMARY_DESCRIPTOR", volume_id, tm, lVolSize), SECTOR)
        b2 == copyTables(b1, AmiTables)
        b3 == IF os.moved
              THEN [b2 EXCEPT !.fld["AT_D800_META_EXTENT"] = isosetl(CDiv(os.meta, SECTOR)),
                              !.fld["AT_D800_USER_EXTENT"] = isosetl(CDiv(os.user, SECTOR))]
              ELSE b2
        b4 == memcpy(b3, README_CONTENT_OFFSET, Src("README_CONTENT"), readmeSize)
        b5 == memcpy(b4, EC_META_CONTENT_OFFSET, Src("META_DATA_CONTENT"), metaDataContentSize)
        b6 == memcpy(b5, EC_USER_CONTENT_OFFSET, [Src("content") EXCEPT !.id = content],
                     contentSize)
        b7 == memcpy(b6, os.meta, Src("META_DATA_CONTENT"), metaDataContentSize)
        b8 == memcpy(b7, os.user, [Src("content") EXCEPT !.id = content], contentSize)
    IN  [b8 EXCEPT !.fld["AT_B800_README_SIZE"] = isosetl(readmeSize),
                   !.fld["AT_C800_META_DATA_SIZE"] = isosetl(metaDataContentSize),
                   !.fld["AT_C800_USER_DATA_SIZE"] = isosetl(contentSize),
                   !.fld["AT_D800_META_DATA_SIZE"] = isosetl(metaDataContentSize),
                   !.fld["AT_D800_USER_DATA_SIZE"] = isosetl(contentSize)]

\* toupper() on the characters of the model.
LowerCase == "abcdefghijklmnopqrstuvwxyz"
UpperCase == "ABCDEFGHIJKLMNOPQRSTUVWXYZ"

toupper(c) ==
    IF HasChar(LowerCase, c)
    THEN CharAt(UpperCase, CHOOSE i \in 1..Len(LowerCase) : CharAt(LowerCase, i) = c)
    ELSE c

\* The file name loop of build_simple_cdrom(): at most 10 characters, upper
\* case, '_' for ' ', then ";1".
RECURSIVE isoName(_, _)
isoName(filename, i) ==
    IF i >= Len(filename) \/ i >= 10 THEN ";1"
    ELSE LET c == toupper(CharAt(filename, i + 1))
         IN  (IF c = " " THEN "_" ELSE c) \o isoName(filename, i + 1)

\* A data size that is not limited.
simpleDataSizeUnlimited(size) == size

\* lDataSize of build_simple_cdrom().
simpleDataSize(size) ==
    IF size > CONTEXTISO_CDROM_SIZE - CONTENTS_OFFSET
    THEN CONTEXTISO_CDROM_SIZE - CONTENTS_OFFSET
    ELSE size

\* build_simple_cdrom(volume_id, filename, buffer, size); descFile is the
\* record copied to SECONDARY_DIRECTORY_RECORD_OFFSET + 68.
build_simple_cdrom(b, volume_id, filename, buffer, size, tm) ==
    LET lDataSize == simpleDataSize(size)
        b1 == memcpy(memset(b), PRIMARY_DESCRIPTOR_OFFSET,
                     descPrimary("ISO9660_PRIMARY_DESCRIPTOR", volume_id, tm,
                                 volSize(lDataSize)), SECTOR)
        b2 == copyTables(b1, SimpleTables)
        b3 == [b2 EXCEPT !.size = isosetl(lDataSize), !.name = isoName(filename, 0)]
    IN  memcpy(b3, CONTENTS_OFFSET, [Src("content") EXCEPT !.id = buffer], lDataSize)

\* The inputs of the model: volume ids, file names, the callers' contents and
\* their lengths (around the relocation threshold and the capacity).
VolumeIds == {"a", "b"}
FileNames == {"a b"}
Contents == {1, 2}
ContentSizes == {0, 2047, 2048, 2049, 4096, 150000}
FewSizes == {0, 4096}

NoBuild == [builder |-> "none", volume_id |-> "", filename |-> "", content |-> 0,
            size |-> 0, tm |-> FirstTime, again |-> FALSE]

\* The call follows a call of the same builder with other inputs.
Again(before, call) ==
    before.builder # "none" /\ [before EXCEPT !.again = FALSE] # call

\* `damaged`: some build wrote outside its buffer; lastAmi and lastSimple: the
\* inputs of the last call of each builder, whose caller holds the pointer to
\* the static buffer.
InitISO ==
    /\ isoNow = FirstTime
    /\ iso = [ami |-> Zeroed, simple |-> Zeroed, damaged |-> FALSE,
              lastAmi |-> NoBuild, lastSimple |-> NoBuild]

\* The clock moves on.
TimePasses(tm) ==
    /\ tm # isoNow
    /\ isoNow' = tm
    /\ UNCHANGED iso
    /\ UNCHANGED notISO

\* A call of build_ami_ci_cdrom().
BuildAmiCi(volume_id, content, contentSize) ==
    LET b == build_ami_ci_cdrom(iso.ami, volume_id, content, contentSize, isoNow)
        call == [builder |-> "ami", volume_id |-> volume_id, filename |-> "",
                 content |-> content, size |-> contentSize, tm |-> isoNow, again |-> FALSE]
    IN  /\ ~iso.damaged
        /\ iso' = [iso EXCEPT !.ami = b, !.damaged = b.overrun,
                              !.lastAmi = [call EXCEPT !.again = Again(iso.lastAmi, call)]]
        /\ UNCHANGED isoNow
        /\ UNCHANGED notISO

\* A call of build_simple_cdrom().
BuildSimple(volume_id, filename, buffer, size) ==
    LET b == build_simple_cdrom(iso.simple, volume_id, filename, buffer, size, isoNow)
        call == [builder |-> "simple", volume_id |-> volume_id, filename |-> filename,
                 content |-> buffer, size |-> size, tm |-> isoNow, again |-> FALSE]
    IN  /\ ~iso.damaged
        /\ iso' = [iso EXCEPT !.simple = b, !.damaged = b.overrun,
                              !.lastSimple = [call EXCEPT !.again = Again(iso.lastSimple, call)]]
        /\ UNCHANGED isoNow
        /\ UNCHANGED notISO

\* The two-convention builder alone, with every content length.
NextISO ==
    \/ \E tm \in Times : TimePasses(tm)
    \/ \E v \in VolumeIds, c \in Contents, n \in ContentSizes : BuildAmiCi(v, c, n)

\* Both builders, called one after the other in any order.
NextISOBoth ==
    \/ \E tm \in Times : TimePasses(tm)
    \/ \E v \in VolumeIds, c \in Contents, n \in FewSizes : BuildAmiCi(v, c, n)
    \/ \E v \in VolumeIds, f \in FileNames, c \in Contents, n \in FewSizes :
          BuildSimple(v, f, c, n)

\* The file names and content lengths of the single-file builder: shorter and
\* longer than the 10 characters kept, empty; lengths around a sector and
\* around the room left after CONTENTS_OFFSET (309248 bytes).
SimpleNames == {"", "a b", "context 12.sh"}
SimpleSizes == {0, 1, 2048, 2049, 309248, 309249, 400000}

\* The single-file builder alone, with every file name and content length.
NextISOSimple ==
    \/ \E tm \in Times : TimePasses(tm)
    \/ \E f \in SimpleNames, c \in Contents, n \in SimpleSizes : BuildSimple("a", f, c, n)

(***************************************************************************)
(* Hypervisor instance: the registry of sessions (HVInstance).  sessionOpen *)
(* is declared in Hypervisor.h; its body is modelled from the                *)
(* specification.                                                          *)
(***************************************************************************)
\* The most sessions the backend allocates.
MaxSessions == 2

Uuids == {"u1", "u2"}
SessionNames == {"n1", "n2"}
Secrets == {"s1", "s2"}

\* The parameters of a sessionOpen call: the uuid is "" when the caller names
\* the session only.
OpenRequests == [uuid : Uuids \cup {""}, name : SessionNames, secret : Secrets]

NoSessions == [u \in {} |-> [obj |-> 0, name |-> "", secret |-> ""]]

\* sessions: uuid -> the session object (obj numbers the allocations);
\* openSessions: the uuids of the attached sessions in insertion order;
\* allocated: how often allocateSession() was called; ret: the error and the
\* session of the last sessionOpen ("" for none).
InitHV ==
    hv = [sessions |-> NoSessions, openSessions |-> <<>>, allocated |-> 0,
          ret |-> [code |-> HVE_OK, uuid |-> ""]]

\* A lookup that finds nothing.
foundNever(sessions, req) == ""

\* The session with the given uuid, or else by sessionByName(); "" when none.
found(sessions, req) ==
    IF req.uuid \in DOMAIN sessions THEN req.uuid
    ELSE IF \E u \in DOMAIN sessions : sessions[u].name = req.name
         THEN CHOOSE u \in DOMAIN sessions : sessions[u].name = req.name
         ELSE ""

IsOpen(u) == \E i \in 1..Len(hv.openSessions) : hv.openSessions[i] = u

\* The uuid of a new session: the caller's, or one the backend makes up.
NewUuids(req) ==
    IF req.uuid # "" THEN {req.uuid} ELSE Uuids \ DOMAIN hv.sessions

\* sessionOpen(parameters, pf, checkSecret)
SessionOpen(req, checkSecret) ==
    LET u == found(hv.sessions, req)
    IN  /\ u = "" => hv.allocated < MaxSessions
        /\ IF u # ""
           THEN IF checkSecret /\ hv.sessions[u].secret # req.secret
                THEN hv' = [hv EXCEPT !.ret = [code |-> HVE_NOT_TRUSTED, uuid |-> ""]]
                ELSE hv' = [hv EXCEPT !.ret = [code |-> HVE_OK, uuid |-> u],
                                      !.openSessions = IF IsOpen(u) THEN @ ELSE Append(@, u)]
           ELSE \E n \in NewUuids(req) :
                  hv' = [sessions |-> [x \in DOMAIN hv.sessions \cup {n} |->
                                          IF x = n
                                          THEN [obj |-> hv.allocated + 1, name |-> req.name,
                                                secret |-> req.secret]
                                          ELSE hv.sessions[x]],
                         openSessions |-> Append(SelectSeq(hv.openSessions,
                                                           LAMBDA x : x # n), n),
                         allocated |-> hv.allocated + 1,
                         ret |-> [code |-> HVE_OK, uuid |-> n]]
        /\ UNCHANGED notHV

\* close(): the session leaves openSessions and stays in sessions.
SessionClose(u) ==
    /\ IsOpen(u)
    /\ hv' = [hv EXCEPT !.openSessions = SelectSeq(@, LAMBDA x : x # u),
                        !.ret = [code |-> HVE_OK, uuid |-> ""]]
    /\ UNCHANGED notHV

NextHV ==
    \/ \E req \in OpenRequests, checkSecret \in BOOLEAN : SessionOpen(req, checkSecret)
    \/ \E u \in Uuids : SessionClose(u)

(***************************************************************************)
(* Provisioning Pipeline: the retry loop around the provider                *)
(* (HVInstance::downloadFile; its body is not part of these sources and is *)
(* taken from the design: sections 4.2 and 4.4).                           *)
(***************************************************************************)
\* The largest retry budget a caller passes (the default is 2, Hypervisor.h:586).
MaxRetries == 2

\* The supplied checksum against the one computed over the downloaded file.
Checksums == {"none", "match", "differ"}

\* job.pc: "idle", "attempt" (about to call the provider), "wait" (in the
\* provider), "done".  failFirst: the transport fails on the attempts numbered
\* 1..failFirst that reach it and succeeds on the later ones.  valid: the
\* destination has been returned to the caller as output.
IdleJob == [pc |-> "idle", retries |-> 0, attempts |-> 0, failFirst |-> 0,
            checksum |-> "none", ret |-> HVE_OK, valid |-> FALSE]

\* A verdict that never compares the checksums.
AcceptUnchecked(checksum) == HVE_OK

\* The verdict on a fully downloaded file.
Validate(checksum) == IF checksum = "differ" THEN HVE_NOT_VALIDATED ELSE HVE_OK

\* A failed attempt is repeated while the budget lasts.
MayRetry(attempts, retries) == attempts <= retries

\* downloadFile(url, checksum, retries) is called.
PipeDownloadFile(retries, checksum, failFirst) ==
    /\ job.pc \in {"idle", "done"}
    /\ calls[1].pc = "idle"
    /\ job' = [IdleJob EXCEPT !.pc = "attempt", !.retries = retries,
                              !.checksum = checksum, !.failFirst = failFirst]
    /\ UNCHANGED <<dpVars, pmVars, ssVars, thVars, restVars>>

\* One more attempt: the loop calls provider->downloadFile().
PipeAttempt ==
    /\ job.pc = "attempt"
    /\ beginDownload(1, "file", TRUE)
    /\ job' = [job EXCEPT !.pc = "wait", !.attempts = @ + 1]
    /\ UNCHANGED <<pmVars, ssVars, thVars, restVars>>

\* The transport, as the job's schedule has it.
PipeTransportFails ==
    /\ job.pc = "wait"
    /\ job.attempts <= job.failFirst
    /\ TransportFails(1)

PipeTransportCompletes ==
    /\ job.pc = "wait"
    /\ job.attempts > job.failFirst
    /\ TransportCompletes(1)

\* The provider has returned: validate a complete file, repeat a failed attempt
\* (its partial output discarded) within the budget, else give up.
PipeAttemptReturned ==
    /\ job.pc = "wait"
    /\ calls[1].pc = "idle"
    /\ calls[1].returned
    /\ job' = IF calls[1].ret = HVE_OK
              THEN [job EXCEPT !.pc = "done", !.ret = Validate(job.checksum),
                               !.valid = (Validate(job.checksum) = HVE_OK)]
              ELSE IF MayRetry(job.attempts, job.retries)
              THEN [job EXCEPT !.pc = "attempt"]
              ELSE [job EXCEPT !.pc = "done", !.ret = calls[1].ret]
    /\ UNCHANGED <<dpVars, pmVars, ssVars, thVars, restVars>>

NextPipe ==
    \/ \E r \in 0..MaxRetries, c \in Checksums, f \in 0..(MaxRetries + 1) :
          PipeDownloadFile(r, c, f)
    \/ PipeAttempt
    \/ IncrementInstances(1)
    \/ OpenStream(1)
    \/ XferInfo(1)
    \/ PipeTransportFails
    \/ PipeTransportCompletes
    \/ CloseStream(1)
    \/ BeginDecrement(1)
    \/ ReturnDownload(1)
    \/ PipeAttemptReturned

(***************************************************************************)
(* Hypervisor Session: the lifecycle state machine.  HVSession declares    *)
(* the operations pure virtual (Hypervisor.h:322-360); their behaviour is  *)
(* taken from the design: sections 4.4, 4.5 and 7.                         *)
(***************************************************************************)
SessionStates == {SS_MISSING, SS_AVAILABLE, SS_POWEROFF, SS_SAVED, SS_PAUSED, SS_RUNNING}

RunningLike == {SS_RUNNING, SS_PAUSED}

\* A validation that lets every state through.
AnyPredecessor(op) == SessionStates

\* The states an operation may be called in.
LegalPredecessors(op) ==
    CASE op = "open"      -> {SS_MISSING}
      [] op = "start"     -> {SS_AVAILABLE, SS_POWEROFF, SS_SAVED}
      [] op = "pause"     -> {SS_RUNNING}
      [] op = "resume"    -> {SS_PAUSED}
      [] op = "hibernate" -> {SS_RUNNING}
      [] op = "reset"     -> {SS_RUNNING}
      [] op = "stop"      -> RunningLike

\* A backend that may leave the machine in any state.
AnyTarget(op) == SessionStates

\* The states a successful operation may end in.
Targets(op) ==
    CASE op = "open"      -> {SS_AVAILABLE, SS_POWEROFF}
      [] op = "start"     -> {SS_RUNNING}
      [] op = "pause"     -> {SS_PAUSED}
      [] op = "resume"    -> {SS_RUNNING}
      [] op = "hibernate" -> {SS_SAVED}
      [] op = "reset"     -> {SS_RUNNING}
      [] op = "stop"      -> {SS_POWEROFF}

\* The session's parameters that reference artifacts.
NoArtifacts == [disk |-> "", context |-> ""]

\* Paths the pipeline returns for a new artifact.
NewPaths == {"v1", "v2"}

\* The ways the stages of provisioning fail, with their result codes.
DiskFailures == {"download", "checksum", "decompress"}
ContextFailures == {"build", "write"}
StageError(f) ==
    CASE f = "checksum"   -> HVE_NOT_VALIDATED
      [] f = "decompress" -> HVE_EXTERNAL_ERROR
      [] OTHER            -> HVE_IO_ERROR

IdleStart == [pc |-> "idle", stateBefore |-> SS_MISSING, before |-> NoArtifacts,
              done |-> {}]

\* returned: the operation has returned ret; failed: what made it fail.
NoSessionOp == [op |-> "new", returned |-> TRUE, ret |-> HVE_OK, stateBefore |-> SS_MISSING,
                artifactsBefore |-> NoArtifacts, failed |-> "none"]

\* HVSession(): state read from the store, 0 (SS_MISSING) when none is persisted.
InitSession ==
    /\ state = SS_MISSING
    /\ artifacts = NoArtifacts
    /\ startCall = IdleStart
    /\ sessLast = NoSessionOp

Returned(op, ret, failed) ==
    [op |-> op, returned |-> TRUE, ret |-> ret, stateBefore |-> state,
     artifactsBefore |-> artifacts, failed |-> failed]

\* A transition other than start(): validate the predecessor, ask the backend,
\* move on success.
transition(op, target, backendOK) ==
    /\ target \in Targets(op)
    /\ IF state \notin LegalPredecessors(op)
       THEN /\ sessLast' = Returned(op, HVE_INVALID_STATE, "none")
            /\ UNCHANGED state
       ELSE IF ~backendOK
       THEN /\ sessLast' = Returned(op, HVE_CONTROL_ERROR, "backend")
            /\ UNCHANGED state
       ELSE /\ sessLast' = Returned(op, HVE_OK, "none")
            /\ state' = target
    /\ UNCHANGED <<artifacts, startCall>>
    /\ UNCHANGED notSS

Open(target, backendOK) ==
    /\ startCall.pc = "idle"
    /\ transition("open", target, backendOK)

Pause(backendOK) ==
    /\ startCall.pc = "idle"
    /\ \E target \in SessionStates : transition("pause", target, backendOK)

Resume(backendOK) ==
    /\ startCall.pc = "idle"
    /\ \E target \in SessionStates : transition("resume", target, backendOK)

Hibernate(backendOK) ==
    /\ startCall.pc = "idle"
    /\ \E target \in SessionStates : transition("hibernate", target, backendOK)

Reset(backendOK) ==
    /\ startCall.pc = "idle"
    /\ \E target \in SessionStates : transition("reset", target, backendOK)

Stop(backendOK) ==
    /\ startCall.pc = "idle"
    /\ \E target \in SessionStates : transition("stop", target, backendOK)

\* start(userData): validate the predecessor; provision when the media are
\* missing or stale, else go on to boot.
StartBegin(provision) ==
    /\ startCall.pc = "idle"
    /\ IF state \notin LegalPredecessors("start")
       THEN /\ sessLast' = Returned("start", HVE_INVALID_STATE, "none")
            /\ UNCHANGED startCall
       ELSE /\ sessLast' = [Returned("start", HVE_OK, "none") EXCEPT !.returned = FALSE]
            /\ startCall' = [pc |-> IF provision THEN "disk" ELSE "boot",
                             stateBefore |-> state, before |-> artifacts, done |-> {}]
    /\ UNCHANGED <<state, artifacts>>
    /\ UNCHANGED notSS

\* A failure that leaves the parameters as the stages before it set them.
KeepPartial(before, current) == current

\* What the parameters are set to when provisioning fails.
RollBack(before, current) == before

\* A stage of provisioning has ended: on success its parameter is updated, on
\* failure start() returns the failure with the parameters rolled back.
stage(name, nextPc, outcome, path) ==
    /\ IF outcome = "ok"
       THEN /\ artifacts' = [artifacts EXCEPT ![name] = path]
            /\ startCall' = [startCall EXCEPT !.pc = nextPc, !.done = @ \cup {name}]
            /\ UNCHANGED sessLast
       ELSE /\ artifacts' = RollBack(startCall.before, artifacts)
            /\ startCall' = [IdleStart EXCEPT !.done = startCall.done]
            /\ sessLast' = [op |-> "start", returned |-> TRUE, ret |-> StageError(outcome),
                            stateBefore |-> startCall.stateBefore,
                            artifactsBefore |-> startCall.before, failed |-> outcome]
    /\ UNCHANGED state
    /\ UNCHANGED notSS

\* The disk image: download, checksum validation, decompression.
StartDiskStage(outcome, path) ==
    /\ startCall.pc = "disk"
    /\ stage("disk", "context", outcome, path)

\* The context image: build, write.
StartContextStage(outcome, path) ==
    /\ startCall.pc = "context"
    /\ stage("context", "boot", outcome, path)

\* The backend boots the machine.
StartBoot(backendOK) ==
    /\ startCall.pc = "boot"
    /\ IF backendOK THEN state' \in Targets("start") ELSE UNCHANGED state
    /\ sessLast' = [op |-> "start", returned |-> TRUE,
                    ret |-> IF backendOK THEN HVE_OK ELSE HVE_CONTROL_ERROR,
                    stateBefore |-> startCall.stateBefore,
                    artifactsBefore |-> startCall.before,
                    failed |-> IF backendOK THEN "none" ELSE "backend"]
    /\ startCall' = [IdleStart EXCEPT !.done = startCall.done]
    /\ UNCHANGED artifacts
    /\ UNCHANGED notSS

\* Instance.sessionDelete: the session and what it persisted are removed.
SessionDelete ==
    /\ startCall.pc = "idle"
    /\ state' = SS_MISSING
    /\ artifacts' = NoArtifacts
    /\ startCall' = IdleStart
    /\ sessLast' = Returned("delete", HVE_OK, "none")
    /\ UNCHANGED notSS

NextSession ==
    \/ \E target \in SessionStates, ok \in BOOLEAN : Open(target, ok)
    \/ \E ok \in BOOLEAN : Pause(ok)
    \/ \E ok \in BOOLEAN : Resume(ok)
    \/ \E ok \in BOOLEAN : Hibernate(ok)
    \/ \E ok \in BOOLEAN : Reset(ok)
    \/ \E ok \in BOOLEAN : Stop(ok)
    \/ \E provision \in BOOLEAN : StartBegin(provision)
    \/ \E o \in DiskFailures \cup {"ok"}, p \in NewPaths : StartDiskStage(o, p)
    \/ \E o \in ContextFailures \cup {"ok"}, p \in NewPaths : StartContextStage(o, p)
    \/ \E ok \in BOOLEAN : StartBoot(ok)
    \/ SessionDelete

(***************************************************************************)
(* Parameter Store: threads.  The bulk operations step by step: each action *)
(* is one critical section of *parametersMutex, or the statements an       *)
(* operation runs between two of them.                                     *)
(***************************************************************************)
Threads == {1, 2}

\* The map of the other store fromParameters() imports from.
ImportSource == [a |-> "1", b |-> "2"]

\* A thread's operation in progress: pc (where it is), op, node, keys (its local
\* vector of names still to handle), replace, map (the caller's map toMap() fills),
\* value (the local std::string of filterParameter()).
IdleThread == [pc |-> "idle", op |-> "none", node |-> 1, keys |-> <<>>,
               replace |-> TRUE, map |-> EmptyMap, value |-> ""]

InitThreads == threads = [t \in Threads |-> IdleThread]

\* What a step in the middle of an operation leaves alone.
midOperation ==
    /\ UNCHANGED <<nodes, commits, wrote, pending, last, result>>
    /\ UNCHANGED <<dpVars, ppVars, ssVars, restVars>>

\* Another thread is about to run a critical section that writes the map.
OtherWriting(t) == \E u \in Threads \ {t} : threads[u].pc \in {"put", "erase"}

\* The outcomes of a read of the map made outside the mutex while another
\* thread writes it.
RacyOutcomes == Garbage \cup {"intact"}

\* clear(): myKeys = enumKeys(), the first critical section.
ClearBegin(t, n) ==
    /\ n \in NodeIds
    /\ threads[t].pc = "idle"
    /\ threads' = [threads EXCEPT ![t] =
                      [IdleThread EXCEPT !.pc = "erase", !.op = "clear", !.node = n,
                                         !.keys = enumKeys(n)]]
    /\ UNCHANGED parameters
    /\ midOperation

\* fromParameters(ptr, clearBefore, replace) up to its first critical section:
\* the enumKeys() of clear() when clearBefore, else ptrKeys = ptr->enumKeys().
FromParametersBegin(t, n, clearBefore, replace) ==
    /\ n \in NodeIds
    /\ threads[t].pc = "idle"
    /\ threads' = [threads EXCEPT ![t] =
                      [IdleThread EXCEPT !.pc = IF clearBefore THEN "erase" ELSE "check",
                                         !.op = "fromParameters", !.node = n,
                                         !.replace = replace,
                                         !.keys = IF clearBefore THEN enumKeys(n)
                                                  ELSE enumKeysOf(ImportSource, "")]]
    /\ UNCHANGED parameters
    /\ midOperation

\* clear(): the second critical section erases the names collected; clear()
\* then returns, or fromParameters() goes on with ptrKeys = ptr->enumKeys().
ClearErase(t) ==
    LET th == threads[t]
        gone == {nodes[th.node].prefix \o th.keys[i] : i \in 1..Len(th.keys)}
    IN  /\ th.pc = "erase"
        /\ parameters' = [k \in (DOMAIN parameters) \ gone |-> parameters[k]]
        /\ IF th.op = "clear"
           THEN /\ threads' = [threads EXCEPT ![t] = IdleThread]
                /\ noCommit(th.node, "clear", "", "")
           ELSE /\ threads' = [threads EXCEPT ![t].pc = "check",
                                              ![t].keys = enumKeysOf(ImportSource, "")]
                /\ UNCHANGED <<nodes, commits, wrote, pending, last, result>>
        /\ UNCHANGED <<dpVars, ppVars, ssVars, restVars>>

\* fromParameters(): the test `replace || parameters->find(k) == end()` of the
\* loop, made before the mutex is taken.
FromParametersCheck(t) ==
    LET th == threads[t]
        k == nodes[th.node].prefix \o Head(th.keys)
    IN  /\ th.pc = "check"
        /\ th.keys # <<>>
        /\ threads' = IF th.replace \/ k \notin DOMAIN parameters
                       THEN [threads EXCEPT ![t].pc = "put"]
                       ELSE [threads EXCEPT ![t].keys = Tail(th.keys)]
        /\ UNCHANGED parameters
        /\ midOperation

\* fromParameters(): the critical section of one loop turn, putOnMap of one key.
FromParametersPut(t) ==
    LET th == threads[t]
        it == Head(th.keys)
    IN  /\ th.pc = "put"
        /\ parameters' = putOnMap(parameters, nodes[th.node].prefix \o it, ImportSource[it])
        /\ threads' = [threads EXCEPT ![t].pc = "check", ![t].keys = Tail(th.keys)]
        /\ midOperation

\* fromParameters(): after the loop, commit or mark dirty, and return.
FromParametersEnd(t) ==
    LET th == threads[t]
    IN  /\ th.pc = "check"
        /\ th.keys = <<>>
        /\ threads' = [threads EXCEPT ![t] = IdleThread]
        /\ commitOrMark(th.node, 0, "fromParameters", "", "")
        /\ UNCHANGED parameters
        /\ UNCHANGED <<dpVars, ppVars, ssVars, restVars>>

\* toMap(map, clearBefore) into a new map: myKeys = enumKeys(), its only
\* critical section.
ToMapBegin(t, n) ==
    /\ n \in NodeIds
    /\ threads[t].pc = "idle"
    /\ threads' = [threads EXCEPT ![t] =
                      [IdleThread EXCEPT !.pc = "read", !.op = "toMap", !.node = n,
                                         !.keys = enumKeys(n)]]
    /\ UNCHANGED parameters
    /\ midOperation

\* toMap(): one loop turn, map->insert(pair(name, (*parameters)[prefix + name]))
\* without the mutex; operator[] inserts an empty value for a key that is gone.
ToMapRead(t, racy) ==
    LET th == threads[t]
        name == Head(th.keys)
        key == nodes[th.node].prefix \o name
        after == insertIfAbsent(parameters, key, "")
        value == IF racy # "intact" /\ OtherWriting(t) THEN racy ELSE after[key]
    IN  /\ th.pc = "read"
        /\ th.keys # <<>>
        /\ parameters' = after
        /\ threads' = [threads EXCEPT ![t].keys = Tail(th.keys),
                                       ![t].map = insertIfAbsent(th.map, name, value)]
        /\ midOperation

\* toMap(): after the loop, return.
ToMapEnd(t) ==
    LET th == threads[t]
    IN  /\ th.pc = "read"
        /\ th.keys = <<>>
        /\ threads' = [threads EXCEPT ![t] = IdleThread]
        /\ returns(th.node, "toMap", "", [NoResult EXCEPT !.map = th.map])
        /\ UNCHANGED parameters
        /\ UNCHANGED <<dpVars, ppVars, ssVars, restVars>>

\* enumKeys() by a thread that is in no other operation.
ThreadEnumKeys(t, n) ==
    /\ threads[t].pc = "idle"
    /\ EnumKeys(n)

\* set() by a thread that is in no other operation: one critical section, then
\* the commit.
ThreadSet(t, n, kname, value) ==
    /\ threads[t].pc = "idle"
    /\ Set(n, kname, value)
    /\ UNCHANGED threads

\* filterParameter(): `if (!contains(parameter)) return true;`, the first
\* critical section.
FilterContains(t, n, parameter) ==
    /\ n \in NodeIds
    /\ threads[t].pc = "idle"
    /\ UNCHANGED parameters
    /\ UNCHANGED <<dpVars, ppVars, ssVars, restVars>>
    /\ IF contains(n, parameter, FALSE)
       THEN /\ threads' = [threads EXCEPT ![t] =
                              [IdleThread EXCEPT !.pc = "get", !.op = "filterParameter",
                                                 !.node = n, !.keys = <<parameter>>]]
            /\ UNCHANGED <<nodes, commits, wrote, pending, last, result>>
       ELSE /\ UNCHANGED threads
            /\ noCommitAnd(n, "filterParameter", parameter, "", Flag(TRUE))

\* filterParameter(): `value = this->get(parameter)`, the second critical
\* section, and the loop that erases the illegal characters from the local copy.
FilterGet(t) ==
    LET th == threads[t]
        value == get(th.node, Head(th.keys), "", FALSE)
        filtered == FilterValue(value)
        valueWithInvalidChar == filtered # value
    IN  /\ th.pc = "get"
        /\ UNCHANGED parameters
        /\ UNCHANGED <<dpVars, ppVars, ssVars, restVars>>
        /\ IF valueWithInvalidChar
           THEN /\ threads' = [threads EXCEPT ![t].pc = "save", ![t].value = filtered]
                /\ UNCHANGED <<nodes, commits, wrote, pending, last, result>>
           ELSE /\ threads' = [threads EXCEPT ![t] = IdleThread]
                /\ noCommitAnd(th.node, "filterParameter", Head(th.keys), value,
                               Flag(TRUE))

\* filterParameter(): the third critical section, putOnMap(parameters,
\* prefix + parameter, value) with the local copy, then the commit and the return.
FilterSave(t) ==
    LET th == threads[t]
    IN  /\ th.pc = "save"
        /\ parameters' = putOnMap(parameters, nodes[th.node].prefix \o Head(th.keys),
                                  th.value)
        /\ threads' = [threads EXCEPT ![t] = IdleThread]
        /\ commitOrMarkAnd(th.node, 0, "filterParameter", Head(th.keys), th.value,
                           Flag(th.value # ""))
        /\ UNCHANGED <<dpVars, ppVars, ssVars, restVars>>

\* filterParameter() by one thread while the others call set().
NextThreadsFilter ==
    \E t \in Threads :
        \/ \E n \in NodeSlots, k \in Names, v \in FilterValues : ThreadSet(t, n, k, v)
        \/ \E n \in NodeSlots, k \in Names : FilterContains(t, n, k)
        \/ FilterGet(t)
        \/ FilterSave(t)

NextThreads ==
    \E t \in Threads :
        \/ \E n \in NodeSlots : ClearBegin(t, n)
        \/ \E n \in NodeSlots, cb, rep \in BOOLEAN : FromParametersBegin(t, n, cb, rep)
        \/ ClearErase(t)
        \/ FromParametersCheck(t)
        \/ FromParametersPut(t)
        \/ FromParametersEnd(t)
        \/ \E n \in NodeSlots : ToMapBegin(t, n)
        \/ \E racy \in RacyOutcomes : ToMapRead(t, racy)
        \/ ToMapEnd(t)
        \/ \E n \in NodeSlots : ThreadEnumKeys(t, n)

(***************************************************************************)
(* Specifications.                                                         *)
(***************************************************************************)
\* The keyed operations alone, with the locking and the subgroups that vary the
\* states they start from.
NextPMKeyed ==
    \E n \in NodeSlots :
        \/ \E k \in Names, v \in Values : Set(n, k, v)
        \/ \E k \in Names : Erase(n, k)
        \/ \E k \in Names, v \in Values : SetDefault(n, k, v)
        \/ ClearAll(n)
        \/ Lock(n)
        \/ Unlock(n)
        \/ \E k \in Names : Subgroup(n, k)

\* The names given to subgroup() and the key names given to set() where nested
\* views are compared: a plain name and a name that spells a nested path.
ViewNames == {"a", "b"}
ViewKeys == {"a", "a/b/a"}
ViewValues == {"1", "2"}

\* The caller's map handed to toMap(): new, or holding an entry already.
ExportDests == {EmptyMap, [a |-> "0"]}

\* Nested subgroups over one shared map: insertion at every level, the two
\* clearing operations and the enumeration of each node's view.
\* set(), lock() and unlock() on the root, its subgroups and their subgroups.
NextPMCommit ==
    \E n \in ViewSlots :
        \/ Set(n, "a", "1")
        \/ SubgroupView(n, "a")
        \/ Lock(n)
        \/ Unlock(n)

NextPMView ==
    \E n \in ViewSlots :
        \/ \E k \in ViewKeys, v \in ViewValues : Set(n, k, v)
        \/ \E k \in ViewNames : SubgroupView(n, k)
        \/ Clear(n)
        \/ ClearAll(n)
        \/ EnumKeys(n)
        \/ \E dest \in ExportDests, cb \in BOOLEAN : ToMap(n, dest, cb)
        \/ FromMapFresh(n)

\* The defaults handed to get(), getNum() and getBool().
Defaults == {"", "d"}
NumDefaults == {0, 7}

\* The keyed operations that read, next to the writes that make a key present
\* or absent.
NextPMRead ==
    \E n \in NodeSlots :
        \/ \E k \in Names, v \in Values : Set(n, k, v)
        \/ \E k \in Names : Erase(n, k)
        \/ \E k \in Names : FilterParameter(n, k)
        \/ \E k \in Names : Subgroup(n, k)
        \/ \E k \in Names, d \in Defaults, st \in BOOLEAN : Get(n, k, d, st)
        \/ \E k \in Names, d \in NumDefaults : GetNum(n, k, d)
        \/ \E k \in Names, d \in BOOLEAN : GetBool(n, k, d)
        \/ \E k \in Names, ub \in BOOLEAN : Contains(n, k, ub)

\* filterParameter() next to the writes that store each kind of value, under
\* the root and under a subgroup.
NextPMFilter ==
    \E n \in NodeSlots :
        \/ \E k \in FilterNames, v \in FilterValues : Set(n, k, v)
        \/ \E k \in FilterNames : FilterParameter(n, k)
        \/ \E k \in Names : Subgroup(n, k)

(***************************************************************************)
(* Session object: HVSession::HVSession(param, hv).                        *)
(***************************************************************************)
\* The defaults the constructor applies, in its order.  The texts of the two
\* macros are defined outside these sources and stand for themselves.
SessionDefaults ==
    << <<"initialized", "0">>, <<"cpus", "1">>, <<"memory", "512">>, <<"disk", "1024">>,
       <<"executionCap", "100">>, <<"apiPort", "DEFAULT_API_PORT">>, <<"flags", "0">>,
       <<"daemonControlled", "0">>, <<"daemonMinCap", "0">>, <<"daemonMaxCap", "0">>,
       <<"daemonFlags", "0">>, <<"uuid", "">>, <<"ip", "">>, <<"secret", "">>,
       <<"name", "">>, <<"diskURL", "">>, <<"diskChecksum", "">>,
       <<"cernvmVersion", "DEFAULT_CERNVM_VERSION">> >>

\* The subgroups the constructor opens.
SessionGroups == <<"user-data", "local", "machine", "properties">>

\* parameters->setDefault(name, value) for the first i defaults.
RECURSIVE applyDefaults(_, _, _)
applyDefaults(map, pfx, i) ==
    IF i = 0 THEN map
    ELSE insertIfAbsent(applyDefaults(map, pfx, i - 1),
                        pfx \o SessionDefaults[i][1], SessionDefaults[i][2])

\* No session constructed yet.
NoSession == [built |-> FALSE, uuid |-> "", state |-> 0, instances |-> 0, pid |-> 0,
              internalID |-> 0, groups |-> <<>>]

InitHVSession == hvSession = NoSession

\* HVSession(param, hv) over the store node n: the defaults, the four
\* subgroups, then uuid and state read from the store.
HVSessionNew(n) ==
    LET pfx == nodes[n].prefix
        after == applyDefaults(parameters, pfx, Len(SessionDefaults))
    IN  /\ n \in NodeIds
        /\ parameters' = after
        /\ hvSession' =
              [built |-> TRUE,
               uuid |-> IF pfx \o "uuid" \in DOMAIN after THEN after[pfx \o "uuid"] ELSE "",
               state |-> IF pfx \o "state" \in DOMAIN after
                         THEN StoN(after[pfx \o "state"]) ELSE 0,
               instances |-> 0, pid |-> 0, internalID |-> 0,
               groups |-> [i \in 1..Len(SessionGroups) |->
                             subgroupPrefix(pfx, SessionGroups[i])]]
        /\ noCommit(n, "HVSession", "", "")
        /\ UNCHANGED notHS

\* The parameters written before a session is constructed.
SessionWrites == {<<"uuid", "u1">>, <<"state", "3">>, <<"cpus", "2">>}

\* Session construction over a store that holds some of the session's
\* parameters already, on the root and on a subgroup.
NextHVSession ==
    \E n \in NodeSlots :
        \/ \E w \in SessionWrites : Set(n, w[1], w[2])
        \/ \E k \in Names : Subgroup(n, k)
        \/ HVSessionNew(n)

\* The values getBool() meets besides the "y" and "n" of setBool(): empty,
\* starting with 't', with '1', with another digit, with a capital.
BoolValues == {"", "t", "1x", "0", "Y"}

\* getBool() next to setBool() and to the writes that store other texts or
\* remove the key.
NextPMBool ==
    \E n \in NodeSlots :
        \/ \E k \in Names, v \in BoolValues : Set(n, k, v)
        \/ \E k \in Names, b \in BOOLEAN : SetBool(n, k, b)
        \/ \E k \in Names : Erase(n, k)
        \/ \E k \in Names, d \in BOOLEAN : GetBool(n, k, d)
        \/ \E k \in Names : Subgroup(n, k)

Init ==
    /\ InitPM
    /\ InitDP
    /\ job = IdleJob
    /\ InitSession
    /\ InitThreads
    /\ InitProgress
    /\ InitISO
    /\ InitHV
    /\ InitHVSession

SpecPM == Init /\ [][NextPM]_vars

SpecPMKeyed == Init /\ [][NextPMKeyed]_vars

SpecPMView == Init /\ [][NextPMView]_vars

SpecPMCommit == Init /\ [][NextPMCommit]_vars

SpecPMRead == Init /\ [][NextPMRead]_vars

SpecPMFilter == Init /\ [][NextPMFilter]_vars

SpecPMBool == Init /\ [][NextPMBool]_vars

SpecHVSession == Init /\ [][NextHVSession]_vars

SpecThreads == Init /\ [][NextThreads]_vars

SpecThreadsFilter == Init /\ [][NextThreadsFilter]_vars

SpecDP == Init /\ [][NextDP]_vars

SpecDPShared == Init /\ [][NextDPShared]_vars

SpecProgress == Init /\ [][NextProgress]_vars

SpecISO == Init /\ [][NextISO]_vars

SpecISOBoth == Init /\ [][NextISOBoth]_vars

SpecISOSimple == Init /\ [][NextISOSimple]_vars

SpecHV == Init /\ [][NextHV]_vars

SpecPipe == Init /\ [][NextPipe]_vars

SpecSession == Init /\ [][NextSession]_vars

(***************************************************************************)
(* Parameter Store: the commit discipline.                                 *)
(***************************************************************************)
\* The operations the store counts as writes.
WriteOps == {"set", "setNum", "setBool", "fromMap", "fromParameters", "fromJSON",
             "filterParameter"}

\* The last operation was `op` on node n.
Did(op, n) == last.op = op /\ last.node = n

\* C1: on a locked node a write triggers no commitChanges() call, and the
\* unlock() that ends the batch triggers exactly one commitChanges() call when a
\* write was made since lock() and none otherwise.
C1_LockBatchesCommits ==
    \A n \in NodeIds :
        /\ (last.node = n /\ last.op \in WriteOps /\ nodes[n].locked) => commits[n] = 0
        /\ Did("unlock", n) => commits[n] = (IF wrote[n] THEN 1 ELSE 0)

(***************************************************************************)
(* Parameter Store: set and setDefault.                                    *)
(***************************************************************************)
\* The full key the last operation was given.
LastKey == nodes[last.node].prefix \o last.name

\* C10: setDefault(name, v) leaves the value of an existing key unchanged, stores
\* v when the key is absent, and triggers no commitChanges() on any node, locked
\* or not; set(name, v) makes the value of the key v whether or not it existed.
C10_SetDefaultKeepsSetOverwrites ==
    [][/\ last'.op = "setDefault" =>
            /\ LastKey' \in DOMAIN parameters'
            /\ parameters'[LastKey'] = (IF LastKey' \in DOMAIN parameters
                                        THEN parameters[LastKey'] ELSE last'.val)
            /\ \A k \in DOMAIN parameters : k \in DOMAIN parameters' /\ parameters'[k] = parameters[k]
            /\ \A m \in DOMAIN commits' : commits'[m] = 0
       /\ last'.op = "set" =>
            /\ LastKey' \in DOMAIN parameters'
            /\ parameters'[LastKey'] = last'.val]_vars

\* setDefault() has run on a locked node for a key that held another value, and
\* the key still holds it.
C10_Witness ==
    /\ last.op = "setDefault"
    /\ nodes[last.node].locked
    /\ LastKey \in DOMAIN parameters
    /\ parameters[LastKey] # last.val

(***************************************************************************)
(* Download Provider: abort() and abortAll().                              *)
(***************************************************************************)
\* C2: a call that starts after abortAll() is cancelled and returns a failure,
\* whatever calls (abort() included) are made on the provider in between.
C2_AbortAllIsSticky ==
    \A t \in Callers :
        (calls[t].returned /\ calls[t].afterAll) => calls[t].ret # HVE_OK

\* C3: a downloadFile() call that starts while abortAll() is in force returns a
\* failure without opening (truncating) its destination and without starting the
\* transport.
C3_StickyAbortFailsBeforeTransfer ==
    \A t \in Callers :
        (calls[t].kind = "file" /\ calls[t].sticky) =>
            /\ ~calls[t].touched
            /\ calls[t].returned => calls[t].ret # HVE_OK

\* C4: a call is cancelled by an abort request only when the request was made
\* while that call was in flight (or abortAll() was called before it started).
C4_AbortCancelsOnlyInFlight ==
    \A t \in Callers :
        calls[t].cause = "abort" => (calls[t].abortDuring \/ calls[t].afterAll)

(***************************************************************************)
(* Hypervisor Session: legal and illegal transitions.                      *)
(***************************************************************************)
\* The predecessors the design gives each operation.
DesignPredecessors ==
    [open |-> {SS_MISSING}, start |-> {SS_AVAILABLE, SS_POWEROFF, SS_SAVED},
     pause |-> {SS_RUNNING}, resume |-> {SS_PAUSED}, hibernate |-> {SS_RUNNING},
     reset |-> {SS_RUNNING}, stop |-> {SS_RUNNING, SS_PAUSED}]

\* The edges the design gives each operation.
DesignEdges ==
    [open |-> {<<SS_MISSING, SS_AVAILABLE>>, <<SS_MISSING, SS_POWEROFF>>},
     start |-> {<<SS_AVAILABLE, SS_RUNNING>>, <<SS_POWEROFF, SS_RUNNING>>,
                <<SS_SAVED, SS_RUNNING>>},
     pause |-> {<<SS_RUNNING, SS_PAUSED>>},
     resume |-> {<<SS_PAUSED, SS_RUNNING>>},
     hibernate |-> {<<SS_RUNNING, SS_SAVED>>},
     reset |-> {<<SS_RUNNING, SS_RUNNING>>},
     stop |-> {<<SS_RUNNING, SS_POWEROFF>>, <<SS_PAUSED, SS_POWEROFF>>}]

\* C5: a transition method called in a state that is not a legal predecessor for
\* it returns HVE_INVALID_STATE and leaves the state and the artifact parameters
\* as they were; pause() in SS_POWEROFF is such a call.
C5_IllegalCallsAreRejected ==
    (sessLast.op \in DOMAIN DesignPredecessors
       /\ sessLast.stateBefore \notin DesignPredecessors[sessLast.op]) =>
        /\ sessLast.returned
        /\ sessLast.ret = HVE_INVALID_STATE
        /\ state = sessLast.stateBefore
        /\ artifacts = sessLast.artifactsBefore

\* pause() has been called in SS_POWEROFF and was rejected.
C5_Witness ==
    /\ sessLast.op = "pause"
    /\ sessLast.stateBefore = SS_POWEROFF
    /\ sessLast.ret = HVE_INVALID_STATE
    /\ state = SS_POWEROFF

\* C6: an operation that returns HVE_OK has moved the state along one of its
\* edges, the state is always one of the six values, and a successful resume()
\* right after a successful pause() from SS_RUNNING ends in SS_RUNNING.
C6_SuccessFollowsEdges ==
    [][/\ state' \in {SS_MISSING, SS_AVAILABLE, SS_POWEROFF, SS_SAVED, SS_PAUSED, SS_RUNNING}
       /\ (sessLast'.op \in DOMAIN DesignEdges /\ sessLast'.returned
             /\ sessLast'.ret = HVE_OK) =>
            <<sessLast'.stateBefore, state'>> \in DesignEdges[sessLast'.op]
       /\ (sessLast.op = "pause" /\ sessLast.ret = HVE_OK
             /\ sessLast.stateBefore = SS_RUNNING
             /\ sessLast'.op = "resume" /\ sessLast'.ret = HVE_OK) =>
            state' = SS_RUNNING]_vars

\* resume() has succeeded on a paused session.
C6_Witness ==
    /\ sessLast.op = "resume"
    /\ sessLast.ret = HVE_OK
    /\ sessLast.stateBefore = SS_PAUSED
    /\ state = SS_RUNNING

(***************************************************************************)
(* Hypervisor Session: provisioning on behalf of start().                  *)
(***************************************************************************)
\* C7: when a stage of the provisioning run by start() fails, the artifact
\* parameters and the state are what they were before the call; while start()
\* runs, an artifact parameter differs from its value before the call only if
\* its stage has succeeded.
C7_FailedProvisioningChangesNothing ==
    /\ (sessLast.op = "start" /\ sessLast.returned
          /\ sessLast.failed \in DiskFailures \cup ContextFailures) =>
        /\ artifacts = sessLast.artifactsBefore
        /\ state = sessLast.stateBefore
    /\ startCall.pc # "idle" =>
        \A a \in {"disk", "context"} :
            artifacts[a] # startCall.before[a] => a \in startCall.done

\* start() has failed in the context stage after its disk stage had succeeded.
C7_Witness ==
    /\ sessLast.op = "start"
    /\ sessLast.returned
    /\ sessLast.failed \in ContextFailures
    /\ "disk" \in startCall.done
    /\ artifacts = sessLast.artifactsBefore

(***************************************************************************)
(* Provisioning Pipeline: retries and checksum.                            *)
(***************************************************************************)
\* C8: a pipeline download never makes more than retries+1 attempts; it returns
\* HVE_OK when the transport fails on at most the first `retries` attempts and
\* the checksum does not differ; it returns HVE_IO_ERROR or HVE_NOT_VALIDATED,
\* after retries+1 attempts, when the transport fails once more than the budget.
C8_RetryBudget ==
    /\ job.attempts <= job.retries + 1
    /\ job.pc = "done" =>
        /\ (job.failFirst <= job.retries /\ job.checksum # "differ") => job.ret = HVE_OK
        /\ job.failFirst > job.retries =>
            /\ job.ret \in {HVE_IO_ERROR, HVE_NOT_VALIDATED}
            /\ job.attempts = job.retries + 1

\* C9: a download whose supplied checksum differs from the one computed over the
\* complete file returns HVE_NOT_VALIDATED, never HVE_OK, and its destination is
\* not returned as output.
C9_ChecksumMismatchIsNotValidated ==
    (job.pc = "done" /\ job.checksum = "differ") =>
        /\ job.ret # HVE_OK
        /\ ~job.valid
        /\ (calls[1].returned /\ calls[1].ret = HVE_OK) => job.ret = HVE_NOT_VALIDATED

\* A download has completed with a checksum that differs and was not validated.
C9_Witness ==
    /\ job.pc = "done"
    /\ job.checksum = "differ"
    /\ calls[1].returned
    /\ calls[1].ret = HVE_OK
    /\ job.ret = HVE_NOT_VALIDATED

(***************************************************************************)
(* Parameter Store: prefixes and views.                                    *)
(***************************************************************************)
\* The keys of the shared map that sit directly under prefix p: p followed by a
\* name without a group separator.
DirectKeysOf(map, p) ==
    {k \in DOMAIN map :
        /\ Len(k) >= Len(p)
        /\ \A i \in 1..Len(p) : CharAt(k, i) = CharAt(p, i)
        /\ \A i \in (Len(p) + 1)..Len(k) : CharAt(k, i) # PMAP_GROUP_SEPARATOR}

DirectKeys(p) == DirectKeysOf(parameters, p)

\* The node store.subgroup(a).subgroup(b) of the root store.
IsNested(n, a, b) ==
    /\ n \in NodeIds
    /\ nodes[n].parent \in NodeIds
    /\ nodes[nodes[n].parent].parent = 1
    /\ nodes[nodes[n].parent].prefix = subgroupPrefix(nodes[1].prefix, a)
    /\ nodes[n].prefix = subgroupPrefix(nodes[nodes[n].parent].prefix, b)

\* C11: for any two names a and b, the keys store.subgroup(a).subgroup(b)
\* enumerates, each qualified with a + sep + b + sep, are exactly the keys that
\* sit directly under that compound prefix in the shared map, and a value set
\* through the nested subgroup under name k is read back by the root under
\* a + sep + b + sep + k.
C11_SubgroupPrefixComposes ==
    \A a \in ViewNames, b \in ViewNames : \A n \in NodeIds :
        LET compound == a \o "/" \o b \o "/"
        IN  IsNested(n, a, b) =>
              /\ Did("enumKeys", n) =>
                    /\ {compound \o result.keys[i] : i \in 1..Len(result.keys)}
                          = DirectKeys(compound)
                    /\ Len(result.keys) = Cardinality(DirectKeys(compound))
              /\ Did("set", n) =>
                    get(1, compound \o last.name, "", FALSE) = last.val

\* The nested subgroup enumerated a view that holds a key inserted by the root,
\* while the map also holds keys of a deeper group and of its parent.
C11_Witness ==
    \E n \in NodeIds :
        /\ IsNested(n, "a", "b")
        /\ Did("enumKeys", n)
        /\ result.keys = <<"a">>
        /\ {"a", "a/a", "a/b/a", "a/b/a/b/a"} \subseteq DOMAIN parameters

\* Key k with the prefix p it starts with removed.
Unqualified(k, p) == SubSeq(k, Len(p) + 1, Len(k))

\* C12: in every reachable state, enumKeys() on a node with prefix p returns
\* exactly the keys of the shared map that start with p and have no group
\* separator after p, each with p removed and each once; keys of nested
\* subgroups and of other prefixes are not returned.
C12_EnumKeysIsTheDirectView ==
    \A n \in NodeIds :
        LET p == nodes[n].prefix
            ks == enumKeys(n)
        IN  /\ {ks[i] : i \in 1..Len(ks)} = {Unqualified(k, p) : k \in DirectKeys(p)}
            /\ \A i, j \in 1..Len(ks) : ks[i] = ks[j] => i = j
            /\ Did("enumKeys", n) => result.keys = ks

\* enumKeys() ran on subgroup "a" while the map also held a key of the root,
\* a key of a nested subgroup and a key of the subgroup itself.
C12_Witness ==
    \E n \in NodeIds :
        /\ nodes[n].prefix = "a/"
        /\ Did("enumKeys", n)
        /\ result.keys = <<"a">>
        /\ {"a", "a/a", "a/b/a"} \subseteq DOMAIN parameters

\* The visible key/value set of a node with prefix p over map `map`.
ViewOf(map, p) == {<<Unqualified(k, p), map[k]>> : k \in DirectKeysOf(map, p)}

\* C13: after toMap() of a node into a new map and fromMap(replace = true) of
\* that map into a fresh node with the same prefix, the fresh node's visible
\* key/value set is the original node's visible key/value set.
C13_ToMapFromMapRoundTrip ==
    \A n \in NodeIds :
        Did("roundTrip", n) =>
            ViewOf(result.fresh, nodes[n].prefix) = ViewOf(parameters, nodes[n].prefix)

\* The round trip ran on subgroup "a" whose view holds one key, next to a key
\* of the root with another value and a key of a nested subgroup, neither of
\* which is part of the view.
C13_Witness ==
    \E n \in NodeIds :
        /\ nodes[n].prefix = "a/"
        /\ Did("roundTrip", n)
        /\ ViewOf(parameters, "a/") = {<<"a", "1">>}
        /\ DOMAIN result.map = {"a"}
        /\ {"a", "a/a", "a/a/b/a"} \subseteq DOMAIN parameters
        /\ parameters["a"] = "2"

\* C17: clear() on a node removes exactly the keys enumKeys() returns for the
\* node and leaves every other key of the shared map with its value; clearAll()
\* on any node leaves the shared map empty.
C17_ClearRemovesOnlyTheView ==
    [][\A n \in NodeIds :
          /\ (last'.op = "clear" /\ last'.node = n) =>
                LET ks == enumKeys(n)
                    gone == {nodes[n].prefix \o ks[i] : i \in 1..Len(ks)}
                IN  /\ DOMAIN parameters' = (DOMAIN parameters) \ gone
                    /\ \A k \in DOMAIN parameters' : parameters'[k] = parameters[k]
          /\ (last'.op = "clearAll" /\ last'.node = n) => DOMAIN parameters' = {}]_vars

\* clear() ran on subgroup "a": its own key "a/a" is gone while a key of the
\* root, a key of a nested subgroup and a key of sibling "b" are still there.
C17_Witness ==
    \E n \in NodeIds :
        /\ nodes[n].prefix = "a/"
        /\ Did("clear", n)
        /\ DOMAIN parameters = {"a", "a/a/b/a", "b/a"}

\* Node n holds no value under name k.
Missing(n, k) == nodes[n].prefix \o k \notin DOMAIN parameters

\* C20: on a key that is missing, get, getNum and getBool return the supplied
\* default, contains returns false, erase and filterParameter return normally,
\* and each of them leaves the shared map as it was, without the key.
C20_MissingKeyIsNeitherErrorNorCreated ==
    [][\A n \in NodeSlots, k \in Names :
          (n \in NodeIds /\ Missing(n, k)) =>
              /\ \A d \in Defaults, st \in BOOLEAN :
                    Get(n, k, d, st) => (result'.str = d /\ parameters' = parameters)
              /\ \A d \in NumDefaults :
                    GetNum(n, k, d) => (result'.num = d /\ parameters' = parameters)
              /\ \A d \in BOOLEAN :
                    GetBool(n, k, d) => (result'.flag = d /\ parameters' = parameters)
              /\ \A ub \in BOOLEAN :
                    Contains(n, k, ub) => (result'.flag = FALSE /\ parameters' = parameters)
              /\ ENABLED Erase(n, k)
              /\ Erase(n, k) => parameters' = parameters
              /\ ENABLED FilterParameter(n, k)
              /\ FilterParameter(n, k) => parameters' = parameters]_vars

\* get() returned the default "d" for a name the subgroup does not hold, while
\* the root holds a value under the same name.
C20_Witness ==
    \E n \in NodeIds :
        /\ nodes[n].prefix = "a/"
        /\ Did("get", n)
        /\ last.name = "a"
        /\ Missing(n, "a")
        /\ result.str = "d"
        /\ "a" \in DOMAIN parameters

(***************************************************************************)
(* Parameter Store: the bulk operations and the commit discipline.         *)
(***************************************************************************)
\* C14: erase, clear and clearAll count as writes: when one of them removes a
\* key on a node that is not locked it triggers commitChanges on the node, and
\* on a locked node it marks the node dirty.
C14_RemovalsCountAsWrites ==
    [][\A n \in NodeIds :
          (/\ last'.op \in {"erase", "clear", "clearAll"}
           /\ last'.node = n
           /\ parameters' # parameters)
          => IF nodes[n].locked THEN nodes'[n].changed ELSE commits'[n] >= 1]_vars

\* The <<key, value>> pairs a JSON object is to leave in the map when imported
\* on a node with prefix p: a string or integer at path a.b under p + a + sep + b.
RECURSIVE JsonLeaves(_, _)
JsonLeaves(p, json) ==
    UNION {IF json[k].t = "obj" THEN JsonLeaves(p \o k \o "/", json[k].o)
           ELSE IF json[k].t = "str" THEN {<<p \o k, json[k].s>>}
           ELSE IF json[k].t = "int" THEN {<<p \o k, NtoS(json[k].i)>>}
           ELSE {} : k \in DOMAIN json}

\* C15: fromJSON on a node with prefix p stores every string or integer member
\* k under p + k and every scalar at path a.b under p + a + sep + b; members of
\* other types are skipped, and no other key of the map changes.
C15_FromJSONStoresUnderPrefix ==
    [][\A n \in NodeSlots, j \in JsonInputs :
          FromJSON(n, j, FALSE, TRUE) =>
              LET leaves == JsonLeaves(nodes[n].prefix, j)
              IN  /\ \A kv \in leaves :
                        kv[1] \in DOMAIN parameters' /\ parameters'[kv[1]] = kv[2]
                  /\ \A k \in (DOMAIN parameters') \ {kv[1] : kv \in leaves} :
                        k \in DOMAIN parameters /\ parameters'[k] = parameters[k]]_vars

\* C16: one call of fromJSON or fromParameters makes exactly one commitChanges
\* call on the node when the node is not locked, whatever it imported, and none
\* when the node is locked.
C16_BulkImportCommitsOnce ==
    \A n \in NodeIds :
        (last.node = n /\ last.op \in {"fromJSON", "fromParameters"})
        => commits[n] = IF nodes[n].locked THEN 0 ELSE 1

\* Every key of the map that starts with prefix p is still there with its value
\* after the step.
KeptUnder(p) ==
    \A k \in DOMAIN parameters :
        (Len(k) >= Len(p) /\ SubSeq(k, 1, Len(p)) = p)
        => (k \in DOMAIN parameters' /\ parameters'[k] = parameters[k])

\* Every pair of `pairs` is in the map after the step.
Imported(pairs) ==
    \A kv \in pairs : kv[1] \in DOMAIN parameters' /\ parameters'[kv[1]] = kv[2]

\* C18: with replace = false, fromMap, fromParameters and fromJSON change the
\* value of no key that the target node already holds, at any nesting depth;
\* with replace = true every imported key ends with the imported value (the
\* keys fromJSON imports under are the matter of C15).
C18_ReplaceFlagIsHonoured ==
    [][\A n \in NodeSlots :
          /\ \A m \in MapInputs :
                /\ FromMap(n, m, FALSE, FALSE) => KeptUnder(nodes[n].prefix)
                /\ FromMap(n, m, FALSE, TRUE)
                      => Imported({<<nodes[n].prefix \o k, m[k]>> : k \in DOMAIN m})
          /\ \A e \in ExternalStores :
                /\ FromParametersExt(n, e, FALSE, FALSE) => KeptUnder(nodes[n].prefix)
                /\ FromParametersExt(n, e, FALSE, TRUE)
                      => Imported({<<nodes[n].prefix \o k, e[k]>> : k \in DOMAIN e})
          /\ \A src \in NodeSlots, d \in DanglingOutcomes, lg \in BOOLEAN :
                FromParameters(n, src, FALSE, FALSE, d, lg) => KeptUnder(nodes[n].prefix)
          /\ \A j \in JsonInputs :
                FromJSON(n, j, FALSE, FALSE) => KeptUnder(nodes[n].prefix)]_vars

(***************************************************************************)
(* Parameter Store: threads and the mutex.                                 *)
(***************************************************************************)
\* C19: the bulk operations are atomic for the other threads on the same root:
\* while fromParameters() imports the two keys of ImportSource and clear()
\* removes them, an enumKeys() run by another thread on a node observes none
\* or all of the keys, never a part of them.
C19_BulkOperationsAreAtomic ==
    \A n \in NodeIds :
        Did("enumKeys", n) =>
            {result.keys[i] : i \in 1..Len(result.keys)} \in {{}, DOMAIN ImportSource}

(***************************************************************************)
(* Parameter Store: what unlock() flushes.                                 *)
(***************************************************************************)
\* C31: an unlock() of a locked node triggers a commit when a write was made on
\* the node since it became locked, a second lock() in between or not.
C31_UnlockFlushesEveryWrite ==
    \A n \in NodeIds : (Did("unlock", n) /\ pending[n]) => commits[n] >= 1

(***************************************************************************)
(* Parameter Store: import from another node.                              *)
(***************************************************************************)
\* The names enumKeys() returns on node n.
KeyNames(n) == LET ks == enumKeys(n) IN {ks[i] : i \in 1..Len(ks)}

\* The keys fromParameters(src) on node n is to store.
TargetKeys(n, src) == {nodes[n].prefix \o k : k \in KeyNames(src)}

\* C32: fromParameters(src) with replace set and clearBefore not set raises no
\* error, stores under this node's prefix + k the value the source held for
\* every name k the source enumerates, and inserts or changes no other key.
C32_FromParametersCopiesTheSourceView ==
    [][\A n \in NodeSlots, src \in NodeSlots, lg \in BOOLEAN, d \in DanglingOutcomes :
          FromParameters(n, src, FALSE, TRUE, d, lg) =>
            /\ last'.op = "fromParameters"
            /\ \A k \in KeyNames(src) :
                  /\ nodes[n].prefix \o k \in DOMAIN parameters'
                  /\ nodes[src].prefix \o k \notin TargetKeys(n, src) =>
                        parameters'[nodes[n].prefix \o k] = parameters[nodes[src].prefix \o k]
            /\ DOMAIN parameters' \subseteq DOMAIN parameters \cup TargetKeys(n, src)
            /\ \A key \in DOMAIN parameters \ TargetKeys(n, src) :
                  key \in DOMAIN parameters' /\ parameters'[key] = parameters[key]]_vars

(***************************************************************************)
(* Parameter Store: commits of subgroups.                                  *)
(***************************************************************************)
\* The k-th ancestor of node n (n itself for k = 0, 0 above the root).
RECURSIVE Up(_, _)
Up(n, k) == IF k = 0 \/ n = 0 THEN n ELSE Up(nodes[n].parent, k - 1)

Ancestors(n) == {Up(n, k) : k \in 1..Len(nodes)} \ {0}

Root(n) == CHOOSE m \in Ancestors(n) \cup {n} : nodes[m].parent = 0

\* The last operation was a set() that triggered a commit: its node was not
\* locked.
CommittingWrite == last.op = "set" /\ ~nodes[last.node].locked

\* C29: a write on a node that is not locked calls commitChanges() once on the
\* node and once on each of its ancestors up to the root, and on no other node.
C29_CommitReachesTheRootOnce ==
    CommittingWrite =>
        /\ commits[Root(last.node)] = 1
        /\ \A m \in NodeIds :
              commits[m] = (IF m = last.node \/ m \in Ancestors(last.node) THEN 1 ELSE 0)

\* A write on a subgroup of a subgroup: the node, its parent and the root were
\* each called once.
C29_Witness ==
    /\ CommittingWrite
    /\ Cardinality(Ancestors(last.node)) = 2
    /\ commits[Root(last.node)] = 1

\* C30: a write through a subgroup of a locked node does not reach the root's
\* commitChanges() while the node is locked.
C30_SubgroupWritesWaitForUnlock ==
    (/\ last.op \in WriteOps
     /\ \E m \in Ancestors(last.node) : nodes[m].locked) => commits[Root(last.node)] = 0

(***************************************************************************)
(* Download Provider: throttled progress                                    *)
(***************************************************************************)
\* The last callback delivered, and the one before it, both reported a
\* position below the maximum.
TwoBelowMax ==
    /\ progress.prev.at # 0
    /\ progress.prev.pos < progress.taskMax
    /\ progress.cur.pos < progress.taskMax

\* The stream of a transfer of known size has just reached the maximum.
AtMax ==
    /\ progress.active
    /\ progress.maxStreamSize # 0
    /\ progress.written = progress.maxStreamSize

\* C22: two consecutive progress callbacks of one transfer that both report a
\* position below the maximum are at least DP_THROTTLE_TIMER apart, measured by
\* the time stamps fireProgressEvent() keeps, and the write that brings the
\* stream to the maximum always delivers its callback, whose position is the
\* maximum.
C22_ProgressIsThrottledButTheLastIsDelivered ==
    /\ TwoBelowMax => progress.cur.time - progress.prev.time >= DP_THROTTLE_TIMER
    /\ AtMax => /\ progress.cur.at = progress.events
                /\ progress.cur.pos = progress.maxStreamSize
                /\ progress.taskPos = progress.taskMax
                /\ progress.cur.time = progress.lastEventTime

\* Two callbacks below the maximum were delivered and then the one at the
\* maximum, less than the throttle interval after the second.
C22_Witness ==
    /\ AtMax
    /\ progress.events = 3
    /\ progress.prev.pos < progress.maxStreamSize
    /\ progress.cur.time - progress.prev.time < DP_THROTTLE_TIMER

(***************************************************************************)
(* Context Media Builder                                                    *)
(***************************************************************************)
\* The number of the first sector that starts past offset x.
FirstSectorPast(x) == (x \div SECTOR) + 1

\* The extent of the buffer that starts at `from`.
Holds(b, from, len, what, id) ==
    \E e \in b.ext : /\ e.from = from /\ e.to = from + len /\ e.base = from
                     /\ e.src.what = what /\ e.src.id = id

Overlap(a, alen, b, blen) == alen > 0 /\ blen > 0 /\ a < b + blen /\ b < a + alen

\* The value of a four-byte two's complement number, lowest byte first.
Decode(b0, b1, b2, b3) ==
    b0 + 256 * b1 + 65536 * b2 + 16777216 * (IF b3 >= 128 THEN b3 - 256 ELSE b3)

LittleHalf(f) == Decode(f[1], f[2], f[3], f[4])
BigHalf(f) == Decode(f[8], f[7], f[6], f[5])

\* The field holds x in both byte orders.
DualEndian(f, x) == Len(f) = 8 /\ LittleHalf(f) = x /\ BigHalf(f) = x

\* The two-convention builder was called and its writes stayed in the buffer.
AmiBuilt == iso.lastAmi.builder = "ami" /\ ~iso.damaged

Relocated == EC_USER_CONTENT_OFFSET + iso.lastAmi.size >= OS_META_CONTENT_OFFSET

\* C23: when convention A's user-data reaches convention B's default metadata
\* offset, the extents recorded for B are the first sector past the end of A's
\* user-data and the first sector past the end of B's metadata, B's two
\* documents are stored at those sectors, and neither overlaps A's user-data or
\* the other; otherwise B's documents are at 0xF800 and 0x10000 and the extent
\* fields are left as the template has them.
C23_RelocationIsSectorAlignedAndDisjoint ==
    AmiBuilt =>
      LET n == iso.lastAmi.size
          c == iso.lastAmi.content
          b == iso.ami
          m == FirstSectorPast(EC_USER_CONTENT_OFFSET + n)
          u == FirstSectorPast(m * SECTOR + metaDataContentSize)
      IN  IF Relocated
          THEN /\ DualEndian(b.fld["AT_D800_META_EXTENT"], m)
               /\ DualEndian(b.fld["AT_D800_USER_EXTENT"], u)
               /\ Holds(b, EC_USER_CONTENT_OFFSET, n, "content", c)
               /\ Holds(b, m * SECTOR, metaDataContentSize, "META_DATA_CONTENT", 0)
               /\ Holds(b, u * SECTOR, n, "content", c)
               /\ ~Overlap(EC_USER_CONTENT_OFFSET, n, m * SECTOR, metaDataContentSize)
               /\ ~Overlap(EC_USER_CONTENT_OFFSET, n, u * SECTOR, n)
               /\ ~Overlap(m * SECTOR, metaDataContentSize, u * SECTOR, n)
          ELSE /\ b.fld["AT_D800_META_EXTENT"] = <<>>
               /\ b.fld["AT_D800_USER_EXTENT"] = <<>>
               /\ Holds(b, OS_META_CONTENT_OFFSET, metaDataContentSize, "META_DATA_CONTENT", 0)
               /\ n > 0 => Holds(b, OS_USER_CONTENT_OFFSET, n, "content", c)
               /\ ~Overlap(EC_USER_CONTENT_OFFSET, n, OS_META_CONTENT_OFFSET,
                           metaDataContentSize)

\* A payload of exactly one sector: A's user-data ends where B's metadata would
\* start, and B moves to sectors 32 and 33.
C23_Witness ==
    /\ AmiBuilt
    /\ iso.lastAmi.size = SECTOR
    /\ DualEndian(iso.ami.fld["AT_D800_META_EXTENT"], 32)
    /\ DualEndian(iso.ami.fld["AT_D800_USER_EXTENT"], 33)

\* C24: whatever the payload length, the two-convention builder writes no byte
\* at or beyond CONTEXTISO_CDROM_SIZE.
C24_WritesStayInsideTheBuffer ==
    iso.lastAmi.builder = "ami" => ~iso.ami.overrun /\ ~iso.damaged

\* 32-bit values whose four bytes differ, of both signs.
IsoValues == {0, 1, 255, 256, 2048, 65536, 16909060, 2147483647, 0 - 1, 0 - 16909060}

\* C25: the eight bytes isosetl() writes for x hold x in little-endian order in
\* bytes 0..3 and in big-endian order in bytes 4..7, for every 32-bit x, and so
\* do the volume size, the file sizes and the extents of the images built.
C25_FieldsAreDualEndian ==
    /\ \A x \in IsoValues : DualEndian(isosetl(x), x)
    /\ iso.lastAmi.builder = "ami" =>
          /\ DualEndian(iso.ami.fld["AT_B800_README_SIZE"], readmeSize)
          /\ DualEndian(iso.ami.fld["AT_C800_META_DATA_SIZE"], metaDataContentSize)
          /\ DualEndian(iso.ami.fld["AT_D800_META_DATA_SIZE"], metaDataContentSize)
          /\ DualEndian(iso.ami.fld["AT_C800_USER_DATA_SIZE"], iso.lastAmi.size)
          /\ DualEndian(iso.ami.fld["AT_D800_USER_DATA_SIZE"], iso.lastAmi.size)
          /\ Relocated =>
                \E m, u \in 0..(CONTEXTISO_CDROM_SIZE \div SECTOR) :
                    /\ DualEndian(iso.ami.fld["AT_D800_META_EXTENT"], m)
                    /\ DualEndian(iso.ami.fld["AT_D800_USER_EXTENT"], u)
          /\ \E e \in iso.ami.ext :
                /\ e.from = PRIMARY_DESCRIPTOR_OFFSET
                /\ \E v \in 1..(CONTEXTISO_CDROM_SIZE \div SECTOR) :
                      DualEndian(e.src.volume_space_size, v)
    /\ iso.lastSimple.builder = "simple" =>
          /\ DualEndian(iso.simple.size, iso.lastSimple.size)
          /\ \E e \in iso.simple.ext :
                /\ e.from = PRIMARY_DESCRIPTOR_OFFSET
                /\ \E v \in 1..(CONTEXTISO_CDROM_SIZE \div SECTOR) :
                      DualEndian(e.src.volume_space_size, v)

\* Both builders have written their fields, the first with relocated extents.
C25_Witness ==
    /\ iso.lastAmi.builder = "ami"
    /\ Relocated
    /\ iso.ami.fld["AT_D800_USER_DATA_SIZE"] = <<0, 16, 0, 0, 0, 0, 16, 0>>
    /\ iso.lastSimple.builder = "simple"
    /\ iso.simple.size = <<0, 16, 0, 0, 0, 0, 16, 0>>

\* The caller's contents an image holds.
ContentsIn(b) == {e.src.id : e \in {x \in b.ext : x.src.what = "content"}}

\* The volume ids and dates an image holds.
DescriptorsIn(b) ==
    {<<e.src.volume_id, e.src.creation_date>> : e \in {x \in b.ext : x.src.volume_id # ""}}

\* C26: the image in a builder's buffer is the one the builder makes of the
\* last call's volume id, content and time on a zeroed buffer, whatever calls
\* came before, and holds no content, volume id or date of an earlier call.
C26_BuildsAreDeterministic ==
    /\ AmiBuilt =>
          /\ iso.ami = build_ami_ci_cdrom(Zeroed, iso.lastAmi.volume_id, iso.lastAmi.content,
                                          iso.lastAmi.size, iso.lastAmi.tm)
          /\ ContentsIn(iso.ami) \subseteq {iso.lastAmi.content}
          /\ DescriptorsIn(iso.ami) =
                {<<BlankPad(iso.lastAmi.volume_id, 31), dateNow(iso.lastAmi.tm)>>}
    /\ (iso.lastSimple.builder = "simple" /\ ~iso.damaged) =>
          /\ iso.simple = build_simple_cdrom(Zeroed, iso.lastSimple.volume_id,
                                             iso.lastSimple.filename, iso.lastSimple.content,
                                             iso.lastSimple.size, iso.lastSimple.tm)
          /\ ContentsIn(iso.simple) \subseteq {iso.lastSimple.content}
          /\ DescriptorsIn(iso.simple) =
                {<<BlankPad(iso.lastSimple.volume_id, 31), dateNow(iso.lastSimple.tm)>>}

\* Each builder made an empty image after a call with other inputs.
C26_Witness ==
    /\ AmiBuilt
    /\ iso.lastAmi.again /\ iso.lastAmi.size = 0
    /\ iso.lastSimple.again /\ iso.lastSimple.size = 0
    /\ ContentsIn(iso.ami) = {} /\ ContentsIn(iso.simple) = {}

\* C27: the image a call returned is not modified by a later call of the same
\* builder.
C27_ReturnedImageIsNotModified ==
    [][/\ iso.lastAmi.builder = "ami" => iso'.ami = iso.ami
       /\ iso.lastSimple.builder = "simple" => iso'.simple = iso.simple]_vars

(***************************************************************************)
(* Hypervisor instance                                                      *)
(***************************************************************************)
\* C28: sessionOpen for a session that exists allocates nothing: when
\* checkSecret is set and the secret differs it fails with HVE_NOT_TRUSTED and
\* leaves sessions and openSessions as they were, otherwise it returns the
\* existing session; and every session object ever allocated has its own key
\* in sessions.
C28_SessionOpenNeverAllocatesTwice ==
    /\ [][\A req \in OpenRequests, checkSecret \in BOOLEAN :
            (SessionOpen(req, checkSecret) /\ req.uuid \in DOMAIN hv.sessions) =>
               /\ hv'.allocated = hv.allocated
               /\ hv'.sessions = hv.sessions
               /\ IF checkSecret /\ hv.sessions[req.uuid].secret # req.secret
                  THEN /\ hv'.ret = [code |-> HVE_NOT_TRUSTED, uuid |-> ""]
                       /\ hv'.openSessions = hv.openSessions
                  ELSE hv'.ret = [code |-> HVE_OK, uuid |-> req.uuid]]_vars
    /\ [][\A req \in OpenRequests, checkSecret \in BOOLEAN :
            (SessionOpen(req, checkSecret)
               /\ \E u \in DOMAIN hv.sessions : hv.sessions[u].name = req.name) =>
               /\ hv'.allocated = hv.allocated
               /\ hv'.sessions = hv.sessions
               /\ hv'.ret.code = HVE_NOT_TRUSTED => hv'.openSessions = hv.openSessions]_vars
    /\ [](/\ Cardinality(DOMAIN hv.sessions) = hv.allocated
          /\ \A u, v \in DOMAIN hv.sessions :
                hv.sessions[u].obj = hv.sessions[v].obj => u = v)

\* A sessionOpen with the wrong secret was refused while two sessions exist,
\* one of them attached.
C28_Witness ==
    /\ hv.ret.code = HVE_NOT_TRUSTED
    /\ Cardinality(DOMAIN hv.sessions) = 2
    /\ Len(hv.openSessions) = 1

(***************************************************************************)
(* Download Provider: the active-operation counter.                        *)
(***************************************************************************)
\* The calls that have incremented the counter and not yet decremented it.
Counted == {t \in Callers : calls[t].pc \in {"open", "perform", "close", "dec", "ret"}}

\* C21: the active-operation counter equals the number of downloadFile and
\* downloadText calls in flight on the provider, with transfers and abort calls
\* on several threads: it is never negative and is 0 when nothing is in flight.
C21_CounterCountsCallsInFlight ==
    /\ operationInstances >= 0
    /\ (\A t \in Callers : calls[t].pc \in {"idle", "inc", "ret"})
          => operationInstances <= Cardinality({t \in Callers : calls[t].pc = "ret"})
    /\ (\A t \in Callers : ~InFlight(calls[t])) => operationInstances = 0
    /\ (\A t \in Callers : calls[t].pc \notin {"inc", "ret"})
          => operationInstances = Cardinality(Counted)

(***************************************************************************)
(* filterParameter().                                                      *)
(***************************************************************************)
\* The positions of s that hold a character of the safe alphabet.
SafeAt(s) == {i \in 1..Len(s) : HasChar(SAFE_KEY_CHARS, CharAt(s, i))}

\* The j-th of them.
NthSafe(s, j) == CHOOSE i \in SafeAt(s) : Cardinality({m \in SafeAt(s) : m < i}) = j - 1

\* r is the subsequence of the characters of s that belong to the safe alphabet.
IsSafeSubsequence(r, s) ==
    /\ Len(r) = Cardinality(SafeAt(s))
    /\ \A j \in 1..Len(r) : CharAt(r, j) = CharAt(s, NthSafe(s, j))

\* filterParameter(k) on node n, whose key is in the map.
FiltersExisting(n, k) == FilterParameter(n, k) /\ contains(n, k, FALSE)

\* C33 as stated: filterParameter(p) on an existing key replaces its value by
\* the subsequence of its characters that belong to the safe alphabet, leaves
\* every other key unchanged, and returns true if and only if the resulting
\* value is non-empty.
C33_FilterReturnsWhetherTheValueIsNonEmpty ==
    [][\A n \in NodeSlots, k \in FilterNames :
          FiltersExisting(n, k) =>
            LET key == nodes[n].prefix \o k
            IN  /\ DOMAIN parameters' = DOMAIN parameters
                /\ IsSafeSubsequence(parameters'[key], parameters[key])
                /\ \A other \in DOMAIN parameters \ {key} :
                      parameters'[other] = parameters[other]
                /\ result'.flag = (parameters'[key] # "")]_vars

\* C33 amended: filterParameter(p) on an existing key replaces its value by
\* the subsequence of its characters that belong to the safe alphabet, leaves
\* every other key unchanged, and returns false if and only if the value held
\* at least one character and none survived; a stored empty value returns true.
C33_FilterReturnsFalseOnlyWhenAllWasErased ==
    [][\A n \in NodeSlots, k \in FilterNames :
          FiltersExisting(n, k) =>
            LET key == nodes[n].prefix \o k
            IN  /\ DOMAIN parameters' = DOMAIN parameters
                /\ IsSafeSubsequence(parameters'[key], parameters[key])
                /\ \A other \in DOMAIN parameters \ {key} :
                      parameters'[other] = parameters[other]
                /\ result'.flag = ~(parameters[key] # "" /\ parameters'[key] = "")]_vars

\* filterParameter("a") has erased part of a value next to another key, and
\* something survived.
C33_Witness ==
    /\ Did("filterParameter", 1)
    /\ last.name = "a"
    /\ "a" \in DOMAIN parameters /\ parameters["a"] = "-Z9_"
    /\ "b" \in DOMAIN parameters /\ parameters["b"] = "!"
    /\ result.flag

\* C34: the value filterParameter() writes back is the filtered form of the
\* value the key holds at that moment, so that with a concurrent set() on the
\* same key the final value is the value set or its filtered form, never the
\* filtered form of the older value written over the one just set.
C34_FilterIsAnAtomicReadModifyWrite ==
    [][\A t \in Threads :
          FilterSave(t) =>
            LET key == nodes[threads[t].node].prefix \o Head(threads[t].keys)
            IN  /\ key \in DOMAIN parameters
                /\ parameters'[key] = FilterValue(parameters[key])]_vars

(***************************************************************************)
(* getBool() and setBool().                                                *)
(***************************************************************************)
\* The text reads as true: it begins with 'y', 't' or '1'.
ReadsTrue(v) == v # "" /\ CharAt(v, 1) \in {"y", "t", "1"}

\* getBool() called right after setBool(b) on the same key returns b.
SetBoolThenGetBool ==
    \A n \in NodeSlots, k \in Names, b \in BOOLEAN :
        SetBool(n, k, b) => \A d \in BOOLEAN : getBool(n, k, d)' = b

\* C35 as stated: getBool(name, d) returns true exactly when the stored value
\* begins with 'y', 't' or '1', false for any other stored value, and d only
\* when the key is missing; setBool followed by getBool returns what was set.
C35_GetBoolDefaultsOnlyWhenMissing ==
    [][/\ \A n \in NodeSlots, k \in Names, d \in BOOLEAN :
             GetBool(n, k, d) =>
               LET key == nodes[n].prefix \o k
               IN  result'.flag = IF key \in DOMAIN parameters
                                  THEN ReadsTrue(parameters[key]) ELSE d
       /\ SetBoolThenGetBool]_vars

\* C35 amended: getBool(name, d) returns d when the key is missing or its
\* stored value is empty, and otherwise true exactly when the stored value
\* begins with 'y', 't' or '1'; setBool followed by getBool returns what was set.
C35_GetBoolDefaultsWhenMissingOrEmpty ==
    [][/\ \A n \in NodeSlots, k \in Names, d \in BOOLEAN :
             GetBool(n, k, d) =>
               LET key == nodes[n].prefix \o k
               IN  result'.flag = IF key \in DOMAIN parameters /\ parameters[key] # ""
                                  THEN ReadsTrue(parameters[key]) ELSE d
       /\ SetBoolThenGetBool]_vars

\* getBool("a", true) has returned false for the "n" that setBool(false) stored.
C35_Witness ==
    /\ Did("getBool", 1)
    /\ "a" \in DOMAIN parameters /\ parameters["a"] = "n"
    /\ ~result.flag

DescriptorDate(tm) ==
    ZeroPad(NtoS(tm.tm_year + 1900), 4) \o ZeroPad(NtoS(tm.tm_mon + 1), 2)
      \o ZeroPad(NtoS(tm.tm_mday), 2) \o ZeroPad(NtoS(tm.tm_hour), 2)
      \o ZeroPad(NtoS(tm.tm_min), 2) \o ZeroPad(NtoS(tm.tm_sec), 2) \o "00" \o "0"

\* The primary descriptors an image holds.
PrimaryIn(b) == {e.src : e \in {x \in b.ext : x.src.volume_id # ""}}

\* The dates of the descriptors of image b are those of the time tm.
DatesOf(b, tm) ==
    \A d \in PrimaryIn(b) :
        /\ d.creation_date = DescriptorDate(tm)
        /\ d.modification_date = DescriptorDate(tm)
        /\ d.effective_date = DescriptorDate(tm)
        /\ d.expiration_date = "00000000000000000"

\* C37: the creation, modification and effective dates of the primary volume
\* descriptor encode the current UTC time, with the calendar year, the calendar
\* month in 01..12, the day, hour, minute and second, then the sub-second
\* digits and the offset byte; the expiration date is all '0' digits.
C37_DatesEncodeTheCalendarTime ==
    /\ AmiBuilt => DatesOf(iso.ami, iso.lastAmi.tm)
    /\ (iso.lastSimple.builder = "simple" /\ ~iso.damaged) =>
          DatesOf(iso.simple, iso.lastSimple.tm)

(***************************************************************************)
(* Context media: the single-file builder.                                 *)
(***************************************************************************)
SimpleBuilt == iso.lastSimple.builder = "simple"

\* The room of the buffer from CONTENTS_OFFSET on.
Room == CONTEXTISO_CDROM_SIZE - 49152

\* The number of content bytes kept of n.
Kept(n) == IF n < Room THEN n ELSE Room

\* Character c of a file name as the name field holds it.
Folded(c) ==
    IF c = " " THEN "_"
    ELSE IF \E i \in 1..26 : CharAt("abcdefghijklmnopqrstuvwxyz", i) = c
         THEN CharAt("ABCDEFGHIJKLMNOPQRSTUVWXYZ",
                     CHOOSE i \in 1..26 : CharAt("abcdefghijklmnopqrstuvwxyz", i) = c)
         ELSE c

\* name is the first min(len, 10) characters of filename, folded, then ";1".
IsIsoNameOf(name, filename) ==
    LET l == IF Len(filename) < 10 THEN Len(filename) ELSE 10
    IN  /\ Len(name) = l + 2
        /\ \A i \in 1..l : CharAt(name, i) = Folded(CharAt(filename, i))
        /\ CharAt(name, l + 1) = ";" /\ CharAt(name, l + 2) = "1"

C39_StreamIsClosedBetweenCalls ==
    /\ (\A t \in Callers : ~InFlight(calls[t])) => ~fStreamOpen
    /\ \A t \in Callers :
          ~(calls[t].returned /\ calls[t].kind = "file" /\ calls[t].destOK
              /\ calls[t].cause = "open")

====
